---------------------------- MODULE Spec2Model ----------------------------
(***************************************************************************)
(* Global Surface Atlas: the rectangle packer, the object cache with its   *)
(* per-frame sweep, the per-face tile allocation policy, the dirty list    *)
(* and the culled-objects capacity estimator of                            *)
(* Source/Engine/Renderer/GI/GlobalSurfaceAtlasPass.cpp.                   *)
(*                                                                         *)
(* RectPack<> (Engine/Utilities/RectPack.h) is not among the sources at    *)
(* hand.  Its Insert/Free are modelled from section 4.1 of the             *)
(* specification: a binary split over free rectangles, first fit in a      *)
(* deterministic depth-first order, no merge on insert, no coalescing on   *)
(* free, null on failure.                                                  *)
(*                                                                         *)
(* The cull shader (_csCullObjects) is not among the sources either; the   *)
(* pass is modelled from section 4.5 and from the comment in Render: a     *)
(* chunk with objects takes the counter as its address and advances it.    *)
(*                                                                         *)
(* RenderTargetPool::Get and GPUBuffer::Init are taken to succeed: the     *)
(* early "return true" of Render on a failed allocation is not a step of   *)
(* the model.                                                              *)
(***************************************************************************)
EXTENDS Integers, Sequences, FiniteSets, TLC

(***************************************************************************)
(* Program constants                                                       *)
(***************************************************************************)
GLOBAL_SURFACE_ATLAS_OBJECT_DATA_STRIDE == 6
GLOBAL_SURFACE_ATLAS_TILE_DATA_STRIDE == 5
GLOBAL_SURFACE_ATLAS_TILE_PADDING == 1
GLOBAL_SURFACE_ATLAS_TILE_SIZE_MIN == 8
GLOBAL_SURFACE_ATLAS_TILE_SIZE_MAX == 192
TileAlignment == 8
TileTooSmall == 4
tileRefitResolutionStep == 32
ResolutionMin == 256
DefragFailWindow == 10
DefragInterval == 60
RedrawFramesStatic == 120
RedrawFramesDynamic == 4
CapacityAlignment == 4096
minObjectRadius == 20
MAX_int32 == 2147483647
SizeofFloat4 == 16
UInt16Range == 65536

\* Not in the sources at hand (Graphics/Config.h, GlobalSurfaceAtlasPass.h):
\* taken from the specification's "platform maximum" and "small ring of
\* in-flight readback slots (capacity ~ expected round-trip latency)".
GPU_MAX_TEXTURE_SIZE == 8192
GPU_ASYNC_LATENCY == 2
CulledObjectsSizeFramesCount == 4

\* the tile padding passed where the call passes none
InsertPadding_TilePadding == GLOBAL_SURFACE_ATLAS_TILE_PADDING

\* the padding argument of AtlasTiles->Insert(tileResolution, tileResolution, 0, ...)
InsertPadding == 0

Faces == 0..5
NoTile == 0

(***************************************************************************)
(* Bounds of the model                                                     *)
(***************************************************************************)
MaxPackOps == 7
MaxNodes == 14

(***************************************************************************)
(* Math helpers (Engine/Core/Math): Min, Max, Clamp, Abs, AlignDown/Up     *)
(***************************************************************************)
MinOf(a, b) == IF a < b THEN a ELSE b
Clamp(v, lo, hi) == IF v < lo THEN lo ELSE IF v > hi THEN hi ELSE v
AbsOf(a) == IF a < 0 THEN -a ELSE a
AlignDown(v, a) == v - (v % a)

(***************************************************************************)
(* The atlas tile: a node of the packer                                    *)
(***************************************************************************)
\* uint16 x,y,width,height swapped pairwise: a constructor passing its
\* arguments to the base in the wrong order
GlobalSurfaceAtlasTile_Swapped(x, y, width, height) ==
    [X |-> y % UInt16Range, Y |-> x % UInt16Range,
     Width |-> width % UInt16Range, Height |-> height % UInt16Range,
     IsUsed |-> FALSE, Children |-> <<>>]

\* GlobalSurfaceAtlasTile(uint16 x, uint16 y, uint16 width, uint16 height)
GlobalSurfaceAtlasTile(x, y, width, height) ==
    [X |-> x % UInt16Range, Y |-> y % UInt16Range,
     Width |-> width % UInt16Range, Height |-> height % UInt16Range,
     IsUsed |-> FALSE, Children |-> <<>>]

\* New<GlobalSurfaceAtlasTile>(0, 0, resolution, resolution)
NewAtlasTiles(resolution) == << GlobalSurfaceAtlasTile(0, 0, resolution, resolution) >>

NullInsert(ns) == [nodes |-> ns, tile |-> NoTile]

\* The two free children left around a w x h item placed at the corner of
\* free node n; children of zero area are not created.
SplitChildren(n, w, h) ==
    LET remainingWidth  == n.Width - w
        remainingHeight == n.Height - h
        pair == IF remainingHeight <= remainingWidth
                THEN << GlobalSurfaceAtlasTile(n.X, n.Y + h, w, remainingHeight),
                        GlobalSurfaceAtlasTile(n.X + w, n.Y, remainingWidth, n.Height) >>
                ELSE << GlobalSurfaceAtlasTile(n.X + w, n.Y, remainingWidth, h),
                        GlobalSurfaceAtlasTile(n.X, n.Y + h, n.Width, remainingHeight) >>
    IN  SelectSeq(pair, LAMBDA c : c.Width > 0 /\ c.Height > 0)

RECURSIVE InsertNode(_, _, _, _)
RECURSIVE InsertChildren(_, _, _, _, _)

\* Insert below the children of node i, in order, from child number k on
InsertChildren(ns, i, k, w, h) ==
    IF k > Len(ns[i].Children) THEN NullInsert(ns)
    ELSE LET r == InsertNode(ns, ns[i].Children[k], w, h)
         IN  IF r.tile # NoTile THEN r ELSE InsertChildren(ns, i, k + 1, w, h)

\* RectPack::Insert at node i: a free node of exactly the size is taken; else
\* the regions split off this node are tried; else a free node that is large
\* enough is shrunk to the item and its remainder split into free children.
InsertNode(ns, i, w, h) ==
    LET n == ns[i] IN
    IF ~n.IsUsed /\ n.Width = w /\ n.Height = h
    THEN [nodes |-> [ns EXCEPT ![i].IsUsed = TRUE], tile |-> i]
    ELSE LET below == InsertChildren(ns, i, 1, w, h) IN
         IF below.tile # NoTile THEN below
         ELSE IF n.IsUsed \/ w > n.Width \/ h > n.Height THEN NullInsert(ns)
         ELSE LET kids == SplitChildren(n, w, h)
                  ids  == [k \in 1..Len(kids) |-> Len(ns) + k]
                  me   == [n EXCEPT !.Width = w, !.Height = h, !.IsUsed = TRUE,
                                    !.Children = n.Children \o ids]
              IN  [nodes |-> [ns EXCEPT ![i] = me] \o kids, tile |-> i]

\* AtlasTiles->Insert(width, height, padding, ...): null (NoTile) when no free
\* rectangle is large enough
Insert(ns, width, height, padding) ==
    InsertNode(ns, 1, width + padding, height + padding)

\* tile->Free(): the rectangle is free again; OnFree() does nothing
Free(ns, tile) == [ns EXCEPT ![tile].IsUsed = FALSE]

LiveTiles(ns) == {i \in 1..Len(ns) : ns[i].IsUsed}

\* (X, Y, Width, Height) of a tile; the empty tuple for no tile
TileRect(ns, t) == IF t = NoTile THEN <<>> ELSE << ns[t].X, ns[t].Y, ns[t].Width, ns[t].Height >>

Overlap(a, b) ==
    /\ a.X < b.X + b.Width  /\ b.X < a.X + a.Width
    /\ a.Y < b.Y + b.Height /\ b.Y < a.Y + a.Height

InAtlas(n, resolution) ==
    /\ 0 <= n.X /\ 0 <= n.Y /\ n.Width > 0 /\ n.Height > 0
    /\ n.X + n.Width <= resolution /\ n.Y + n.Height <= resolution

(***************************************************************************)
(* Tile allocation policy (RasterizeActor, per face)                       *)
(***************************************************************************)
\* (uint16)(float): the integer part when it fits; out of range the
\* conversion is undefined, and builds give the low 16 bits, 0 or 0xFFFF
CastUInt16(v) ==
    IF v < UInt16Range THEN {v}
    ELSE {v % UInt16Range, 0, UInt16Range - 1}

\* clamp without the snap down to the alignment
TileResolution_NoSnap(tileResolution) ==
    Clamp(tileResolution, GLOBAL_SURFACE_ATLAS_TILE_SIZE_MIN, GLOBAL_SURFACE_ATLAS_TILE_SIZE_MAX)

\* Math::Clamp<uint16>(.., TILE_SIZE_MIN, TILE_SIZE_MAX), then
\* Math::AlignDown<uint16>(.., 8)
TileResolution(tileResolution) ==
    AlignDown(Clamp(tileResolution, GLOBAL_SURFACE_ATLAS_TILE_SIZE_MIN,
                    GLOBAL_SURFACE_ATLAS_TILE_SIZE_MAX), TileAlignment)

\* boundsSizeTile.Raw[tileIndex / 2] = MAX_float; MinValue() * tilesScale, for
\* an extent triple b (1..3) already scaled by tilesScale
FaceDesired(b, tileIndex) ==
    LET k == tileIndex \div 2 IN
    IF k = 0 THEN MinOf(b[2], b[3])
    ELSE IF k = 1 THEN MinOf(b[1], b[3])
    ELSE MinOf(b[1], b[2])

RECURSIVE BitAnd(_, _)
BitAnd(a, b) ==
    IF a = 0 \/ b = 0 THEN 0
    ELSE 2 * BitAnd(a \div 2, b \div 2) + (IF a % 2 = 1 /\ b % 2 = 1 THEN 1 ELSE 0)

RECURSIVE BitTest(_, _)
BitTest(mask, bit) == IF bit = 0 THEN mask % 2 = 1 ELSE BitTest(mask \div 2, bit - 1)

(***************************************************************************)
(* Cache entries (GlobalSurfaceAtlasObject)                                *)
(***************************************************************************)
NoTiles == [f \in Faces |-> NoTile]

\* MemoryClear'ed entry, as created by Objects[actorObject] in OnInsert
NewObject == [present |-> TRUE, LastFrameUsed |-> 0, LastFrameDirty |-> 0, Tiles |-> NoTiles]

\* no entry under the key
NoObject == [present |-> FALSE, LastFrameUsed |-> 0, LastFrameDirty |-> 0, Tiles |-> NoTiles]

TileCount(o) == Cardinality({f \in Faces : o.Tiles[f] # NoTile})

\* State carried through the faces loop of one RasterizeActor call; calls is
\* the sequence of the packer calls the loop has made
LoopStart(ns, o) ==
    [nodes |-> ns, obj |-> o, anyTile |-> FALSE, dirty |-> FALSE, insertFail |-> FALSE,
     outcome |-> [f \in Faces |-> "none"], size |-> [f \in Faces |-> 0], calls |-> <<>>]

FreeCall(f, tile) == [op |-> "Free", face |-> f, tile |-> tile, size |-> 0]
InsertCall(f, tile, size) == [op |-> "Insert", face |-> f, tile |-> tile, size |-> size]

\* insertion failure that leaves the (already freed) tile in the slot
InsertFailed_KeepSlot(st, ns, f) ==
    [st EXCEPT !.nodes = ns, !.insertFail = TRUE, !.outcome[f] = "fail"]

\* else branch of "if (tile)": the slot is nulled, the failure frame recorded
InsertFailed(st, ns, f) ==
    [st EXCEPT !.nodes = ns,
               !.obj = IF st.obj.present THEN [st.obj EXCEPT !.Tiles[f] = NoTile] ELSE st.obj,
               !.insertFail = TRUE, !.outcome[f] = "fail"]

\* refit on every change of the resolution
ReuseCurrentTile_Exact(tileResolution, currentSize) == tileResolution = currentSize

\* Math::Abs(tileResolution - currentSize) < tileRefitResolutionStep
ReuseCurrentTile(tileResolution, currentSize) ==
    AbsOf(tileResolution - currentSize) < tileRefitResolutionStep

\* a too small surface that keeps its tile
SkipTooSmall_KeepTile(st, f) == [st EXCEPT !.anyTile = @ \/ st.obj.Tiles[f] # NoTile,
                                           !.outcome[f] = "small"]

\* Skip too small surfaces: if (object && object->Tiles[tileIndex]) Free, null
SkipTooSmall(st, f) ==
    IF st.obj.present /\ st.obj.Tiles[f] # NoTile
    THEN [st EXCEPT !.nodes = Free(st.nodes, st.obj.Tiles[f]),
                    !.obj.Tiles[f] = NoTile, !.outcome[f] = "small",
                    !.calls = Append(@, FreeCall(f, st.obj.Tiles[f]))]
    ELSE [st EXCEPT !.outcome[f] = "small"]

\* a refit that inserts the new tile and leaves the old one allocated
FreeOldTile_Skipped(st, f) == st

\* Free old tile: object->Tiles[tileIndex]->Free(), before the Insert
FreeOldTile(st, f) ==
    IF st.obj.present /\ st.obj.Tiles[f] # NoTile
    THEN [st EXCEPT !.nodes = Free(st.nodes, st.obj.Tiles[f]),
                    !.calls = Append(@, FreeCall(f, st.obj.Tiles[f]))]
    ELSE st

\* One iteration of the faces loop, for the face's value after the uint16 cast
RasterizeFace(st, f, inMask, cast) ==
    IF ~inMask THEN st
    ELSE IF cast < TileTooSmall
    THEN SkipTooSmall(st, f)
    ELSE LET tileResolution == TileResolution(cast)
             hasTile == st.obj.present /\ st.obj.Tiles[f] # NoTile
             s1 == [st EXCEPT !.size[f] = tileResolution]
         IN  IF hasTile /\ ReuseCurrentTile(tileResolution, st.nodes[st.obj.Tiles[f]].Width)
             THEN [s1 EXCEPT !.anyTile = TRUE, !.outcome[f] = "reuse"]
             ELSE LET s2 == FreeOldTile(s1, f)
                      r == Insert(s2.nodes, tileResolution, tileResolution, InsertPadding)
                      s3 == [s2 EXCEPT !.calls = Append(@, InsertCall(f, r.tile, tileResolution))]
                  IN  IF r.tile # NoTile
                      THEN [s3 EXCEPT !.nodes = r.nodes,
                                      !.obj = [(IF st.obj.present THEN st.obj ELSE NewObject)
                                                 EXCEPT !.Tiles[f] = r.tile],
                                      !.anyTile = TRUE, !.dirty = TRUE, !.outcome[f] = "insert"]
                      ELSE InsertFailed(s3, s2.nodes, f)

RECURSIVE FacesLoop(_, _, _, _)
FacesLoop(st, f, tilesMask, cast) ==
    IF f > 5 THEN st
    ELSE FacesLoop(RasterizeFace(st, f, BitTest(tilesMask, f), cast[f]), f + 1, tilesMask, cast)

\* the D word of the id added whole
RedrawPeriod_Unmasked(isStatic, idD) ==
    (IF isStatic THEN RedrawFramesStatic ELSE RedrawFramesDynamic) + idD

\* redrawFramesCount + (actor->GetID().D & redrawFramesCount)
RedrawPeriod(isStatic, idD) ==
    LET redrawFramesCount == IF isStatic THEN RedrawFramesStatic ELSE RedrawFramesDynamic
    IN  redrawFramesCount + BitAnd(idD, redrawFramesCount)

\* dirty only through the redraw period
IsDirty_PeriodOnly(st, currentFrame, period) ==
    currentFrame - st.obj.LastFrameDirty >= period

\* dirty only through an inserted tile
IsDirty_InsertOnly(st, currentFrame, period) == st.dirty

\* dirty || CurrentFrame - object->LastFrameDirty >= period
IsDirty(st, currentFrame, period) ==
    st.dirty \/ currentFrame - st.obj.LastFrameDirty >= period

\* an entry marked used whether or not a face has a tile
MarkObject_Always(st, currentFrame, period) ==
    [st.obj EXCEPT !.LastFrameUsed = currentFrame,
                   !.LastFrameDirty = IF IsDirty(st, currentFrame, period)
                                      THEN currentFrame ELSE @]

\* an entry stamped dirty but not marked used
MarkObject_NoUsedStamp(st, currentFrame, period) ==
    IF ~st.anyTile THEN st.obj
    ELSE [st.obj EXCEPT !.LastFrameDirty = IF IsDirty(st, currentFrame, period)
                                           THEN currentFrame ELSE @]

\* an entry marked used but never stamped dirty
MarkObject_NoDirtyStamp(st, currentFrame, period) ==
    IF ~st.anyTile THEN st.obj ELSE [st.obj EXCEPT !.LastFrameUsed = currentFrame]

\* The entry after the call: untouched past the faces loop when no face has a
\* tile, else marked used and, when dirty, marked dirty
MarkObject(st, currentFrame, period) ==
    IF ~st.anyTile THEN st.obj
    ELSE [st.obj EXCEPT !.LastFrameUsed = currentFrame,
                        !.LastFrameDirty = IF IsDirty(st, currentFrame, period)
                                           THEN currentFrame ELSE @]

(***************************************************************************)
(* Cache-level operations                                                  *)
(***************************************************************************)
\* sweep that drops the entries but leaves their tiles allocated
RemoveUnusedNodes_NoFree(objs, ns, currentFrame) == ns

\* for (tile : it->Value.Tiles) if (tile) tile->Free(), for every entry with
\* LastFrameUsed != currentFrame
RemoveUnusedNodes(objs, ns, currentFrame) ==
    LET stale == {t \in 1..Len(ns) :
                    \E a \in DOMAIN objs :
                       /\ objs[a].present /\ objs[a].LastFrameUsed # currentFrame
                       /\ \E f \in Faces : objs[a].Tiles[f] = t}
    IN  [t \in 1..Len(ns) |-> IF t \in stale THEN [ns[t] EXCEPT !.IsUsed = FALSE] ELSE ns[t]]

\* sweep keyed on the age of the entry instead of on inequality
RemoveUnusedObjects_None(objs, currentFrame) == objs

RemoveUnusedObjects_Older(objs, currentFrame) ==
    [a \in DOMAIN objs |->
        IF objs[a].present /\ objs[a].LastFrameUsed + 1 < currentFrame THEN NoObject ELSE objs[a]]

\* Objects.Remove(it) for every entry with LastFrameUsed != currentFrame
RemoveUnusedObjects(objs, currentFrame) ==
    [a \in DOMAIN objs |->
        IF objs[a].present /\ objs[a].LastFrameUsed # currentFrame THEN NoObject ELSE objs[a]]

\* a buffer that never counts as updated in the current frame
AlreadyRendered_Never(lastFrameUsed, currentFrame) == FALSE

\* Skip if already done in the current frame
AlreadyRendered(lastFrameUsed, currentFrame) == lastFrameUsed = currentFrame

\* render targets that are taken anew in every frame
NoCache_Always(cached, resolution) == TRUE

\* bool noCache = surfaceAtlasData.Resolution != resolution
NoCache(cached, resolution) == cached # resolution

\* defragmentation as soon as an insertion has failed
DefragmentationNeeded_FailOnly(currentFrame, lastInsertFail, lastDefragmentation) ==
    currentFrame - lastInsertFail < DefragFailWindow

\* defragmentation that is never due
DefragmentationNeeded_Never(currentFrame, lastInsertFail, lastDefragmentation) == FALSE

\* currentFrame - LastFrameAtlasInsertFail < 10 &&
\* currentFrame - LastFrameAtlasDefragmentation > 60
DefragmentationNeeded(currentFrame, lastInsertFail, lastDefragmentation) ==
    /\ currentFrame - lastInsertFail < DefragFailWindow
    /\ currentFrame - lastDefragmentation > DefragInterval

\* _objectsBuffer->Data.Count(): bytes of the records written this frame
ObjectsBufferBytes(buf) ==
    LET RECURSIVE Sum(_)
        Sum(k) == IF k = 0 THEN 0
                  ELSE Sum(k - 1) + SizeofFloat4 *
                         (GLOBAL_SURFACE_ATLAS_OBJECT_DATA_STRIDE
                          + GLOBAL_SURFACE_ATLAS_TILE_DATA_STRIDE * buf[k].tiles)
    IN  Sum(Len(buf))

\* the test of the scene actors loop without the radius condition
ActorVisible_AnyRadius(viewMask, distance, p) ==
    BitAnd(viewMask, p.layerMask) # 0 /\ p.sphereDistance < distance

\* viewMask & e.LayerMask && e.Bounds.Radius >= minObjectRadius
\*     && CollisionsHelper::DistanceSpherePoint(e.Bounds, viewPosition) < distance
ActorVisible(viewMask, distance, p) ==
    /\ BitAnd(viewMask, p.layerMask) # 0
    /\ p.radius >= minObjectRadius
    /\ p.sphereDistance < distance

(***************************************************************************)
(* The model scene                                                         *)
(***************************************************************************)
Actors == 1..2
\* actor->HasStaticFlag(StaticFlags::Lightmap) and actor->GetID().D
ActorStatic == [a \in Actors |-> a = 2]
ActorIdD == [a \in Actors |-> IF a = 1 THEN 4 ELSE 0]
\* Graphics::GlobalSurfaceAtlasResolution
ConfigResolutions == {256}
\* extents scaled by tilesScale, and tiles masks, an actor is drawn with: the
\* dynamic actor changes its size, the static one keeps it
BoundsInputs ==
    [a \in Actors |-> IF ActorStatic[a] THEN { <<70, 200, 200>> }
                      ELSE { <<70, 70, 70>>, <<90, 90, 90>>, <<100, 100, 100>>, <<70, 200, 200>> }]
TilesMasks == {5}
\* Engine::FrameCount at the first Render
StartFrames == {5}
\* renderContext.View.RenderLayersMask and giSettings.Distance
ViewMask == 1
DrawDistance == 2000
\* e.LayerMask, e.Bounds.Radius and the distance of e.Bounds to the viewer, as
\* a scene actor has them in a frame: one that is drawn, one too small
ScenePlacements ==
    { [layerMask |-> 1, radius |-> 50, sphereDistance |-> 100],
      [layerMask |-> 1, radius |-> 19, sphereDistance |-> 100] }
\* sizes of the culled objects data of the chunks of a frame: a pass that
\* ends with a counter of 300, and one that ends with 600
ChunkLoads == { <<0, 299>> }
CapChunkLoads == { <<0, 299>>, <<299, 300>> }

(***************************************************************************)
(* Bounds of the frame machine                                             *)
(***************************************************************************)
MaxSteps == 2
MaxGpuLag == 2

(***************************************************************************)
(* Capacity estimator helpers                                              *)
(***************************************************************************)
AlignUp(v, a) == ((v + a - 1) \div a) * a

\* A uint32 as its two 16-bit halves << high, low >>, so that values of 2^31
\* and more and the wraparound at 2^32 are computed as the machine does
HalfWord == 65536
Word(n) == << n \div HalfWord, n % HalfWord >>
WordValue(w) == w[1] * HalfWord + w[2]
LessWord(x, y) == x[1] < y[1] \/ (x[1] = y[1] /\ x[2] < y[2])

\* Math::Min on uint32
Min32(x, y) == IF LessWord(x, y) THEN x ELSE y

\* uint32 product with a small factor: the bits above the 32nd are dropped
Mul32(w, k) ==
    LET low == w[2] * k
    IN  << (w[1] * k + low \div HalfWord) % HalfWord, low % HalfWord >>

\* Math::AlignUp<uint32>: (value + mask) & ~mask with mask = alignment - 1,
\* for a power of two up to 2^16
AlignUp32(w, a) ==
    LET low == w[2] + (a - 1)
        sum == << (w[1] + low \div HalfWord) % HalfWord, low % HalfWord >>
    IN  << sum[1], sum[2] - (sum[2] % a) >>

\* the same operations on numbers of any size, the high half unbounded
MulExact(w, k) ==
    LET low == w[2] * k
    IN  << w[1] * k + low \div HalfWord, low % HalfWord >>
AlignUpExact(w, a) ==
    LET low == w[2] + (a - 1)
        sum == << w[1] + low \div HalfWord, low % HalfWord >>
    IN  << sum[1], sum[2] - (sum[2] % a) >>

Slots == 0..(CulledObjectsSizeFramesCount - 1)
NoSlot == -1

\* a search that finds no slot
FindFreeSlot_None(frames, currentFrame) == NoSlot

\* for (i ...) if (currentFrame - _culledObjectsSizeFrames[i] > GPU_ASYNC_LATENCY)
FindFreeSlot(frames, currentFrame) ==
    LET free == {i \in Slots : currentFrame - frames[i] > GPU_ASYNC_LATENCY}
    IN  IF free = {} THEN NoSlot ELSE CHOOSE i \in free : \A k \in free : i <= k

\* (uint32)((float)_objectsBuffer->Data.Count() * 1.3f)
\* (the float product truncates to this value unless the byte count is a
\* multiple of 10, which a count of 16 * (6 + 5 * tiles) per object is not for
\* fewer than five objects)
FallbackCapacity(bytes) == (bytes * 13) \div 10

\* sample scaled by the size of the counter instead of the element
SampleCapacity_Unscaled(counter) == counter * 4

\* objectsBufferCapacity = counter * sizeof(Float4)
SampleCapacity32(counter) == Mul32(counter, SizeofFloat4)
SampleCapacity(counter) == WordValue(SampleCapacity32(Word(counter)))

\* the sample used whenever the slot could be read, zero or not
EstimatedCapacity_AnySample(hadSlot, mapped, counter, bytes) ==
    IF hadSlot /\ mapped THEN SampleCapacity(counter) ELSE FallbackCapacity(bytes)

\* objectsBufferCapacity before the alignment: the fallback, replaced by the
\* sample when a slot is held, Map succeeds and the counter read is not zero
EstimatedCapacity(hadSlot, mapped, counter, bytes) ==
    IF hadSlot /\ mapped /\ counter > 0
    THEN SampleCapacity(counter) ELSE FallbackCapacity(bytes)

\* a counter cleared to the size of an empty list before the pass
ChunksCounterReset_Zero == Len(<< >>)

\* uint32 counter = 1; UpdateBuffer(ChunksBuffer, &counter, sizeof(counter), 0)
ChunksCounterReset == 1

\* The cull pass, chunk by chunk: a chunk with objects takes the counter as
\* the address of its data and advances the counter by the size of the data;
\* a chunk without objects gets address 0.  sizes[j] is the size of the data
\* of chunk j, in Float4 elements.
RECURSIVE CullPass(_, _, _)
CullPass(counter, sizes, j) ==
    IF j > Len(sizes) THEN [counter |-> counter, chunks |-> <<>>]
    ELSE LET address == IF sizes[j] = 0 THEN 0 ELSE counter
             rest == CullPass(counter + sizes[j], sizes, j + 1)
         IN  [counter |-> rest.counter,
              chunks |-> <<[address |-> address, size |-> sizes[j]]>> \o rest.chunks]

\* the counter the pass of a frame ends with
PassCounter(sizes) == CullPass(ChunksCounterReset, sizes, 1).counter

\* not ready only while no slot is held
NotReady_SlotOnly(hadSlot, mapped, counter) == ~hadSlot

\* notReady after the read of the held slot and the search for a slot
NotReady(hadSlot, mapped, counter) ==
    IF hadSlot THEN ~(mapped /\ counter > 0) ELSE TRUE

\* Math::Min(Math::AlignUp(objectsBufferCapacity, 4096u), (uint32)MAX_int32)
AlignedCapacity32(capacity) == Min32(AlignUp32(capacity, CapacityAlignment), Word(MAX_int32))
AlignedCapacity(capacity) == WordValue(AlignedCapacity32(Word(capacity)))

(***************************************************************************)
(* State                                                                   *)
(***************************************************************************)
VARIABLES
    FrameCount,                     \* Engine::FrameCount
    pc, cursor,                     \* position inside Render; next scene actor
    Resolution, AtlasTiles, Objects,
    LastFrameUsed,                  \* of the custom buffer
    LastFrameAtlasInsertFail, LastFrameAtlasDefragmentation,
    CurrentFrame,
    dirtyObjectsBuffer, objectsBuffer,
    CulledObjectsCounterIndex,
    culledObjectsSizeFrames,        \* _culledObjectsSizeFrames
    culledObjectsSizeBuffer,        \* staging buffer, as the CPU reads it
    chunksCounter,                  \* ChunksBuffer[0] in GPU memory
    chunks,                         \* the chunks as the last pass executed wrote them
    gpuQueue,                       \* per-frame GPU work not yet executed
    notReady, CulledObjectsCapacity,
    renderReturn,                   \* what the last Render call returned
    AtlasTextures,                  \* the atlas render targets of the buffer
    Result, result,                 \* the snapshot published; the caller's BindingData
    \* history variables
    steps, packLog, lastCall, swept, armed, desiredPrev, capLog, tileIn, tileOut,
    visit,                          \* what the actors loop of this frame tested
    actorId,                        \* actor->GetID().D of the scene actors
    otherBuffer,                    \* a second atlas buffer served by the same pass
    capIn, capOut,                  \* the input and the result of SpecWidth's one step
    \* BehaviorTreeGraph
    Nodes,                          \* the graph nodes, in the order of the Nodes array
    Instances,                      \* the fields of the node instances that Load writes
    Root, NodesCount, NodesStatesSize,
    loadStack,                      \* the LoadRecursive calls in progress
    loadStatus,                     \* how far Load has come, or how it ended
    loadLog                         \* history: the nodes in the order LoadRecursive entered them

cacheVars == << Resolution, AtlasTiles, Objects, LastFrameUsed, LastFrameAtlasInsertFail,
                LastFrameAtlasDefragmentation, CurrentFrame, dirtyObjectsBuffer, objectsBuffer >>
gpuVars == << CulledObjectsCounterIndex, culledObjectsSizeFrames, culledObjectsSizeBuffer,
              chunksCounter, chunks, gpuQueue, notReady, CulledObjectsCapacity, capLog >>
histVars == << packLog, lastCall, swept, armed, desiredPrev, visit >>
tileVars == << tileIn, tileOut >>
outVars == << AtlasTextures, Result, result >>
wordVars == << capIn, capOut >>
graphVars == << Nodes, Instances, Root, NodesCount, NodesStatesSize, loadStack, loadStatus,
                loadLog >>
envVars == << actorId, otherBuffer, wordVars, graphVars >>
vars == << FrameCount, pc, cursor, cacheVars, gpuVars, renderReturn, histVars, steps, tileVars,
          envVars, outVars >>

\* tileIn, tileOut: the input and the result of SpecTile's one step
NoDesired == [a \in Actors |-> [frame |-> 0, cast |-> [f \in Faces |-> 0], mask |-> 0,
                                failed |-> {}]]
NoCall == [actor |-> 0, outcome |-> [f \in Faces |-> "none"], size |-> [f \in Faces |-> 0],
           before |-> [f \in Faces |-> <<>>], prev |-> NoDesired[1], prevDirty |-> 0,
           marked |-> FALSE, dirty |-> FALSE, inserted |-> FALSE, calls |-> <<>>,
           prevPresent |-> FALSE]
NoCapLog == [ran |-> FALSE, hadSlot |-> FALSE, mapped |-> FALSE, sample |-> 0, had |-> FALSE,
             done |-> FALSE, since |-> 0, trueCounter |-> 0, monotone |-> TRUE,
             sources |-> [i \in Slots |-> {}],
             counterFrame |-> 0, slotFrame |-> [i \in Slots |-> -1], sampleFrame |-> -1,
             copied |-> [frame |-> 0, from |-> 0]]

NoVisit == [a \in Actors |-> [seen |-> FALSE, layerMask |-> 0, radius |-> 0,
                               sphereDistance |-> 0]]

\* the fields of the second buffer that meet the first one's: its slot index,
\* its LastFrameUsed, the counter of its chunks buffer
NoOther == [CulledObjectsCounterIndex |-> NoSlot, LastFrameUsed |-> 0, chunksCounter |-> 0]

\* no render targets; a zeroed BindingData
NoTextures == [id |-> 0, resolution |-> 0]
NoResult == [Atlas |-> 0, Resolution |-> 0, ObjectsCount |-> 0]

NoTileOut == [done |-> FALSE, outcome |-> "none", cast |-> 0, resolution |-> 0, rect |-> <<>>]

NoCapIn == [ready |-> FALSE, counter |-> Word(0), bytes |-> 0]
NoCapOut == [done |-> FALSE, estimate |-> Word(0), capacity |-> Word(0)]

\* The state after construction of the buffer and of the pass.  CurrentFrame
\* has no initializer; Render writes it before RasterizeActor reads it.
InitRender ==
    /\ pc = "idle" /\ cursor = 1
    /\ Resolution = 0 /\ AtlasTiles = <<>>
    /\ Objects = [a \in Actors |-> NoObject]
    /\ LastFrameUsed = 0
    /\ LastFrameAtlasInsertFail = 0 /\ LastFrameAtlasDefragmentation = 0
    /\ CurrentFrame = 0
    /\ dirtyObjectsBuffer = <<>> /\ objectsBuffer = <<>>
    /\ CulledObjectsCounterIndex = NoSlot
    /\ culledObjectsSizeFrames = [i \in Slots |-> 0]
    /\ culledObjectsSizeBuffer = [i \in Slots |-> 0]
    /\ gpuQueue = <<>> /\ chunks = <<>>
    /\ notReady = FALSE /\ CulledObjectsCapacity = 0 /\ renderReturn = FALSE
    /\ steps = 0 /\ packLog = <<>> /\ lastCall = NoCall /\ swept = {} /\ armed = 0
    /\ desiredPrev = NoDesired /\ visit = NoVisit /\ otherBuffer = NoOther
    /\ capLog = NoCapLog
    /\ tileOut = NoTileOut
    /\ AtlasTextures = NoTextures /\ Result = NoResult /\ result = NoResult

\* BehaviorTreeGraph after construction or Clear(): no nodes, no root, the
\* counts zero
GraphCleared ==
    /\ Nodes = << >> /\ Instances = << >>
    /\ Root = 0 /\ NodesCount = 0 /\ NodesStatesSize = 0
    /\ loadStack = << >> /\ loadStatus = "cleared" /\ loadLog = << >>

InitState ==
    /\ InitRender
    /\ capIn = NoCapIn /\ capOut = NoCapOut
    /\ GraphCleared

\* ... in the model scene
InitCommon == InitState /\ actorId = ActorIdD

(***************************************************************************)
(* Render, in the steps the frame update goes through                      *)
(***************************************************************************)
\* Render up to the scene actors loop: skip test, options, Clear() on a
\* resolution change or ClearObjects() for a defragmentation, the root tile,
\* and the per-frame buffers
RenderBegin(configs) ==
    /\ pc = "idle"
    /\ ~AlreadyRendered(LastFrameUsed, FrameCount)
    /\ \E config \in configs :
         LET currentFrame == FrameCount
             resolution == Clamp(config, ResolutionMin, GPU_MAX_TEXTURE_SIZE)
             noCache == NoCache(Resolution, resolution)
             clear == noCache \/ DefragmentationNeeded(currentFrame, LastFrameAtlasInsertFail,
                                                       LastFrameAtlasDefragmentation)
         IN  /\ LastFrameUsed' = currentFrame
             /\ Resolution' = resolution
             /\ LastFrameAtlasDefragmentation' =
                    IF clear THEN FrameCount ELSE LastFrameAtlasDefragmentation
             /\ CulledObjectsCounterIndex' = IF clear THEN NoSlot ELSE CulledObjectsCounterIndex
             /\ Objects' = IF clear THEN [a \in Actors |-> NoObject] ELSE Objects
             /\ AtlasTiles' = IF clear \/ AtlasTiles = <<>>
                              THEN NewAtlasTiles(resolution) ELSE AtlasTiles
             /\ CurrentFrame' = currentFrame
             /\ AtlasTextures' = IF noCache
                                 THEN [id |-> AtlasTextures.id + 1, resolution |-> resolution]
                                 ELSE AtlasTextures
             /\ armed' = IF clear THEN 0 ELSE armed
             /\ capLog' = [capLog EXCEPT !.ran = FALSE,
                                         !.done = IF clear THEN FALSE ELSE @]
    /\ objectsBuffer' = <<>> /\ dirtyObjectsBuffer' = <<>>
    /\ pc' = "draw" /\ cursor' = 1
    /\ lastCall' = NoCall /\ swept' = {} /\ visit' = NoVisit
    /\ UNCHANGED << FrameCount, LastFrameAtlasInsertFail, culledObjectsSizeFrames,
                    culledObjectsSizeBuffer, chunksCounter, chunks, gpuQueue, notReady,
                    CulledObjectsCapacity, renderReturn, steps, packLog, desiredPrev, tileVars,
                    envVars, Result, result >>

\* Render called again in a frame it already ran in: result = Result; return false
RenderSkip ==
    /\ pc = "idle"
    /\ AlreadyRendered(LastFrameUsed, FrameCount)
    /\ result' = Result
    /\ renderReturn' = FALSE
    /\ UNCHANGED << FrameCount, pc, cursor, cacheVars, gpuVars, histVars, steps, tileVars, envVars,
                    AtlasTextures, Result >>

\* A scene actor that fails the layer, radius or distance test: no Draw
SkipActor(placements) ==
    /\ pc = "draw" /\ cursor \in Actors
    /\ \E p \in placements :
         /\ ~ActorVisible(ViewMask, DrawDistance, p)
         /\ visit' = [visit EXCEPT ![cursor] = [seen |-> TRUE, layerMask |-> p.layerMask,
                                                radius |-> p.radius,
                                                sphereDistance |-> p.sphereDistance]]
    /\ cursor' = cursor + 1
    /\ UNCHANGED << FrameCount, pc, cacheVars, gpuVars, renderReturn, packLog, lastCall, swept,
                    armed, desiredPrev, steps, tileVars, envVars, outVars >>

\* e.Actor->Draw(renderContext) reaching RasterizeActor(actor, actor, ..., tilesMask)
RasterizeActor(bounds, masks, placements) ==
    /\ pc = "draw" /\ cursor \in Actors
    /\ \E p \in placements :
         /\ ActorVisible(ViewMask, DrawDistance, p)
         /\ visit' = [visit EXCEPT ![cursor] = [seen |-> TRUE, layerMask |-> p.layerMask,
                                                radius |-> p.radius,
                                                sphereDistance |-> p.sphereDistance]]
    /\ \E b \in bounds[cursor], tilesMask \in masks :
       \E c0 \in CastUInt16(FaceDesired(b, 0)), c1 \in CastUInt16(FaceDesired(b, 2)),
          c2 \in CastUInt16(FaceDesired(b, 4)) :
         LET a == cursor
             cast == [f \in Faces |-> IF f \div 2 = 0 THEN c0 ELSE IF f \div 2 = 1 THEN c1 ELSE c2]
             st == FacesLoop(LoopStart(AtlasTiles, Objects[a]), 0, tilesMask, cast)
             period == RedrawPeriod(ActorStatic[a], actorId[a])
             dirty == st.anyTile /\ IsDirty(st, CurrentFrame, period)
             object == MarkObject(st, CurrentFrame, period)
         IN  /\ Len(st.nodes) <= MaxNodes
             /\ AtlasTiles' = st.nodes
             /\ Objects' = [Objects EXCEPT ![a] = object]
             /\ LastFrameAtlasInsertFail' =
                    IF st.insertFail THEN CurrentFrame ELSE LastFrameAtlasInsertFail
             /\ dirtyObjectsBuffer' =
                    IF dirty THEN Append(dirtyObjectsBuffer, a) ELSE dirtyObjectsBuffer
             /\ objectsBuffer' =
                    IF st.anyTile
                    THEN Append(objectsBuffer, [actor |-> a, tiles |-> TileCount(object)])
                    ELSE objectsBuffer
             /\ lastCall' = [actor |-> a, outcome |-> st.outcome, size |-> st.size,
                             before |-> [f \in Faces |-> TileRect(AtlasTiles, Objects[a].Tiles[f])],
                             prev |-> desiredPrev[a], prevDirty |-> Objects[a].LastFrameDirty,
                             marked |-> st.anyTile, dirty |-> dirty, inserted |-> st.dirty,
                             calls |-> st.calls, prevPresent |-> Objects[a].present]
             /\ desiredPrev' = [desiredPrev EXCEPT ![a] =
                                  [frame |-> CurrentFrame, cast |-> cast, mask |-> tilesMask,
                                   failed |-> {f \in Faces : st.outcome[f] = "fail"}]]
             /\ armed' = IF st.insertFail /\ armed = 0
                            /\ CurrentFrame - LastFrameAtlasDefragmentation > DefragInterval
                         THEN CurrentFrame ELSE armed
    /\ cursor' = cursor + 1
    /\ UNCHANGED << FrameCount, pc, Resolution, LastFrameUsed, LastFrameAtlasDefragmentation,
                    CurrentFrame, gpuVars, renderReturn, steps, packLog, swept, tileVars,
                    envVars, outVars >>

\* Remove unused objects
RemoveUnused ==
    /\ pc = "draw" /\ cursor \notin Actors
    /\ Objects' = RemoveUnusedObjects(Objects, CurrentFrame)
    /\ AtlasTiles' = RemoveUnusedNodes(Objects, AtlasTiles, CurrentFrame)
    /\ swept' = {[actor |-> a, LastFrameUsed |-> Objects[a].LastFrameUsed,
                  Tiles |-> Objects[a].Tiles] :
                    a \in {x \in Actors : Objects[x].present /\ ~Objects'[x].present}}
    /\ lastCall' = NoCall
    /\ pc' = "cull"
    /\ UNCHANGED << FrameCount, cursor, Resolution, LastFrameUsed, LastFrameAtlasInsertFail,
                    LastFrameAtlasDefragmentation, CurrentFrame, dirtyObjectsBuffer,
                    objectsBuffer, gpuVars, renderReturn, steps, packLog, armed,
                    desiredPrev, visit, tileVars, envVars, outVars >>

PendingCopy == \E k \in 1..Len(gpuQueue) : gpuQueue[k].copy # NoSlot

\* Cull objects into chunks: the capacity of the culled objects buffer from
\* the counter read back, the copy of the counter, the dispatch; return notReady
CullObjects(loads, mapResults) ==
    /\ pc = "cull"
    /\ IF \A a \in Actors : ~Objects[a].present
       THEN /\ notReady' = FALSE
            /\ UNCHANGED << CulledObjectsCounterIndex, culledObjectsSizeFrames, gpuQueue,
                            CulledObjectsCapacity >>
            /\ capLog' = [capLog EXCEPT !.ran = FALSE]
       ELSE \E mapped \in (IF PendingCopy THEN mapResults ELSE {TRUE}), sizes \in loads :
              LET hadSlot == CulledObjectsCounterIndex # NoSlot
                  trueCounter == PassCounter(sizes)
                  counter == IF hadSlot /\ mapped
                             THEN culledObjectsSizeBuffer[CulledObjectsCounterIndex] ELSE 0
                  capacity == EstimatedCapacity(hadSlot, mapped, counter,
                                                ObjectsBufferBytes(objectsBuffer))
                  index == IF hadSlot THEN CulledObjectsCounterIndex
                           ELSE FindFreeSlot(culledObjectsSizeFrames, CurrentFrame)
              IN  /\ notReady' = NotReady(hadSlot, mapped, counter)
                  /\ CulledObjectsCounterIndex' = index
                  /\ culledObjectsSizeFrames' =
                         IF index # NoSlot
                         THEN [culledObjectsSizeFrames EXCEPT ![index] = CurrentFrame]
                         ELSE culledObjectsSizeFrames
                  /\ CulledObjectsCapacity' = AlignedCapacity(capacity)
                  /\ gpuQueue' = Append(gpuQueue, [copy |-> index, sizes |-> sizes,
                                                   frame |-> CurrentFrame, buffer |-> 1])
                  /\ capLog' = [capLog EXCEPT
                                  !.ran = TRUE, !.hadSlot = hadSlot, !.mapped = mapped,
                                  !.sample = counter, !.had = capLog.done,
                                  !.sampleFrame = IF hadSlot /\ mapped
                                                  THEN capLog.slotFrame[CulledObjectsCounterIndex]
                                                  ELSE -1,
                                  !.since = IF hadSlot THEN @ ELSE CurrentFrame,
                                  !.trueCounter = trueCounter,
                                  !.monotone = @ /\ trueCounter >= capLog.trueCounter]
    /\ result' = [Atlas |-> AtlasTextures.id, Resolution |-> Resolution,
                   ObjectsCount |-> Cardinality({a \in Actors : Objects[a].present})]
    /\ Result' = result'
    /\ renderReturn' = notReady'
    /\ swept' = {} /\ visit' = NoVisit
    /\ pc' = "idle"
    /\ UNCHANGED << FrameCount, cursor, cacheVars, culledObjectsSizeBuffer, chunksCounter,
                    chunks, packLog, lastCall, armed, desiredPrev, steps, tileVars, envVars,
                    AtlasTextures >>

\* The GPU executes the oldest frame's work: the copy of the counter into the
\* staging slot, then the counter reset and the cull pass.  The CPU sees the
\* GPU's progress only through Map in the next Render, so the step is taken
\* between two Render calls.
GpuExecute ==
    /\ pc = "idle"
    /\ gpuQueue # <<>>
    /\ LET work == Head(gpuQueue)
           pass == CullPass(ChunksCounterReset, work.sizes, 1)
       IN  IF work.buffer = 1
           THEN /\ culledObjectsSizeBuffer' =
                       IF work.copy # NoSlot
                       THEN [culledObjectsSizeBuffer EXCEPT ![work.copy] = chunksCounter]
                       ELSE culledObjectsSizeBuffer
                /\ chunksCounter' = pass.counter /\ chunks' = pass.chunks
                /\ capLog' = [capLog EXCEPT
                       !.counterFrame = work.frame,
                       !.slotFrame = IF work.copy # NoSlot
                                     THEN [@ EXCEPT ![work.copy] = capLog.counterFrame]
                                     ELSE @,
                       !.copied = IF work.copy # NoSlot
                                  THEN [frame |-> work.frame, from |-> capLog.counterFrame]
                                  ELSE @,
                       !.done = @ \/ (work.copy # NoSlot /\ work.copy = CulledObjectsCounterIndex
                                      /\ work.frame >= capLog.since),
                       !.sources = IF work.copy # NoSlot
                                   THEN [@ EXCEPT ![work.copy] = @ \cup {chunksCounter}]
                                   ELSE @]
                /\ UNCHANGED otherBuffer
           ELSE /\ culledObjectsSizeBuffer' =
                       IF work.copy # NoSlot
                       THEN [culledObjectsSizeBuffer EXCEPT
                                ![work.copy] = otherBuffer.chunksCounter]
                       ELSE culledObjectsSizeBuffer
                /\ otherBuffer' = [otherBuffer EXCEPT !.chunksCounter = pass.counter]
                /\ UNCHANGED << chunksCounter, chunks, capLog >>
    /\ gpuQueue' = Tail(gpuQueue)
    /\ UNCHANGED << FrameCount, pc, cursor, cacheVars, CulledObjectsCounterIndex,
                    culledObjectsSizeFrames, notReady, CulledObjectsCapacity, renderReturn,
                    histVars, steps, tileVars, actorId, wordVars, graphVars, outVars >>

\* Render for the second atlas buffer, in the frame's sequence of Render
\* calls: of its frame update, what reaches the state the buffers share, the
\* slot stamps and the staging buffer.  Its cache is an input: whether this
\* frame clears it (ClearObjects) and whether it holds objects after the Sweep.
RenderOther(clears, loads) ==
    /\ pc = "idle"
    /\ ~AlreadyRendered(otherBuffer.LastFrameUsed, FrameCount)
    /\ \E clear \in clears, nonEmpty \in BOOLEAN, sizes \in loads :
         LET currentFrame == FrameCount
             held == IF clear THEN NoSlot ELSE otherBuffer.CulledObjectsCounterIndex
             index == IF held # NoSlot THEN held
                      ELSE FindFreeSlot(culledObjectsSizeFrames, currentFrame)
         IN  IF nonEmpty
             THEN /\ otherBuffer' = [otherBuffer EXCEPT !.LastFrameUsed = currentFrame,
                                                        !.CulledObjectsCounterIndex = index]
                  /\ culledObjectsSizeFrames' =
                         IF index # NoSlot
                         THEN [culledObjectsSizeFrames EXCEPT ![index] = currentFrame]
                         ELSE culledObjectsSizeFrames
                  /\ gpuQueue' = Append(gpuQueue, [copy |-> index, sizes |-> sizes,
                                                   frame |-> currentFrame, buffer |-> 2])
             ELSE /\ otherBuffer' = [otherBuffer EXCEPT !.LastFrameUsed = currentFrame,
                                                        !.CulledObjectsCounterIndex = held]
                  /\ UNCHANGED << culledObjectsSizeFrames, gpuQueue >>
    /\ UNCHANGED << FrameCount, pc, cursor, cacheVars, CulledObjectsCounterIndex,
                    culledObjectsSizeBuffer, chunksCounter, chunks, notReady,
                    CulledObjectsCapacity, capLog, renderReturn, histVars, steps, tileVars,
                    actorId, wordVars, graphVars, outVars >>

\* Engine::FrameCount advances by k frames; in the frames passed over Render
\* is not called.  GPU work is never more than maxLag frames behind.
NextFrame(frameSteps, maxSteps, maxLag) ==
    /\ pc = "idle"
    /\ steps < maxSteps
    /\ \E k \in frameSteps :
         /\ \A i \in 1..Len(gpuQueue) : FrameCount + k - gpuQueue[i].frame <= maxLag
         /\ FrameCount' = FrameCount + k
         /\ armed' = IF k > 1 \/ LastFrameUsed # FrameCount THEN 0 ELSE armed
    /\ steps' = steps + 1
    /\ UNCHANGED << pc, cursor, cacheVars, gpuVars, renderReturn, packLog, lastCall, swept,
                    desiredPrev, visit, tileVars, envVars, outVars >>

\* ISceneRenderingListener::OnSceneRenderingUpdateActor
OnSceneRenderingUpdateActor ==
    /\ pc = "idle"
    /\ \E a \in Actors :
         Objects' = IF ActorStatic[a] /\ Objects[a].present
                    THEN [Objects EXCEPT ![a].LastFrameDirty = 0] ELSE Objects
    /\ UNCHANGED << FrameCount, pc, cursor, Resolution, AtlasTiles, LastFrameUsed,
                    LastFrameAtlasInsertFail, LastFrameAtlasDefragmentation, CurrentFrame,
                    dirtyObjectsBuffer, objectsBuffer, gpuVars, renderReturn, histVars, steps,
                    tileVars, envVars, outVars >>

\* First Render in frame FrameCount >= 1; ChunksBuffer is created without
\* initial data, so its first word holds whatever the allocation holds
InitAt(frames, counters) ==
    /\ InitCommon
    /\ tileIn = 0
    /\ FrameCount \in frames
    /\ chunksCounter \in counters

(***************************************************************************)
(* Spec: the object cache and the tile policy over consecutive frames      *)
(***************************************************************************)
Init == InitAt(StartFrames, {0})

Next ==
    \/ RenderBegin(ConfigResolutions)
    \/ RenderSkip
    \/ SkipActor(ScenePlacements)
    \/ RasterizeActor(BoundsInputs, TilesMasks, ScenePlacements)
    \/ RemoveUnused
    \/ CullObjects(ChunkLoads, {TRUE})
    \/ GpuExecute
    \/ NextFrame({1}, MaxSteps, 0)
    \/ OnSceneRenderingUpdateActor

Spec == Init /\ [][Next]_vars

(***************************************************************************)
(* SpecDefrag: an atlas under pressure over long runs of frames            *)
(***************************************************************************)
MaxDefragSteps == 2
\* Graphics::GlobalSurfaceAtlasResolution as the user changes it (128 is
\* clamped to 256); frames passed between two Render calls
DefragResolutions == {128, 512}
DefragFrameSteps == {1, 5, 61}

NextDefrag ==
    \/ RenderBegin(DefragResolutions)
    \/ RenderSkip
    \/ SkipActor(ScenePlacements)
    \/ RasterizeActor([a \in Actors |-> {<<200, 200, 200>>}], {1}, ScenePlacements)
    \/ RemoveUnused
    \/ CullObjects(ChunkLoads, {TRUE})
    \/ GpuExecute
    \/ NextFrame(DefragFrameSteps, MaxDefragSteps, 0)
    \/ OnSceneRenderingUpdateActor

SpecDefrag == InitAt({1}, {0}) /\ [][NextDefrag]_vars

(***************************************************************************)
(* SpecCap: the capacity estimator against a GPU that runs behind          *)
(***************************************************************************)
MaxCapSteps == 2

NextCap ==
    \/ RenderBegin(ConfigResolutions)
    \/ RenderSkip
    \/ SkipActor(ScenePlacements)
    \/ RasterizeActor([a \in Actors |-> {<<70, 70, 70>>}], {1}, ScenePlacements)
    \/ RemoveUnused
    \/ CullObjects(CapChunkLoads, BOOLEAN)
    \/ GpuExecute
    \/ NextFrame({1}, MaxCapSteps, MaxGpuLag)
    \/ OnSceneRenderingUpdateActor

SpecCap == InitAt({3}, {0, 7}) /\ [][NextCap]_vars

(***************************************************************************)
(* SpecFaces: faces that come and go: too small, masked out, refitted,     *)
(* failing to fit                                                          *)
(***************************************************************************)
MaxFaceSteps == 2

FaceBounds ==
    [a \in Actors |-> IF ActorStatic[a] THEN { <<70, 200, 200>> }
                      ELSE { <<70, 70, 70>>, <<3, 70, 70>>, <<70, 3, 3>>, <<70, 200, 200>> }]
FaceMasks == {1, 5}

NextFaces ==
    \/ RenderBegin(ConfigResolutions)
    \/ RenderSkip
    \/ SkipActor(ScenePlacements)
    \/ RasterizeActor(FaceBounds, FaceMasks, ScenePlacements)
    \/ RemoveUnused
    \/ CullObjects(ChunkLoads, {TRUE})
    \/ GpuExecute
    \/ NextFrame({1}, MaxFaceSteps, 0)
    \/ OnSceneRenderingUpdateActor

SpecFaces == InitAt(StartFrames, {0}) /\ [][NextFaces]_vars

(***************************************************************************)
(* SpecScene: actors that change layer, shrink and move away               *)
(***************************************************************************)
MaxSceneSteps == 2

\* layers in and out of the view's mask, radii around minObjectRadius, sphere
\* distances around the draw distance
MovingPlacements ==
    { [layerMask |-> l, radius |-> r, sphereDistance |-> d] :
        l \in {1, 2, 3}, r \in {19, 20}, d \in {1999, 2000} }

NextScene ==
    \/ RenderBegin(ConfigResolutions)
    \/ RenderSkip
    \/ SkipActor(MovingPlacements)
    \/ RasterizeActor([a \in Actors |-> {<<70, 70, 70>>}], {1}, MovingPlacements)
    \/ RemoveUnused
    \/ CullObjects(ChunkLoads, {TRUE})
    \/ GpuExecute
    \/ NextFrame({1}, MaxSceneSteps, 0)
    \/ OnSceneRenderingUpdateActor

SpecScene == InitAt(StartFrames, {0}) /\ [][NextScene]_vars

(***************************************************************************)
(* SpecOwn: every way a tile changes hands: insertion, refit, a face too   *)
(* small, insertion failure, sweep, defragmentation, resolution change     *)
(***************************************************************************)
MaxOwnSteps == 2
OwnFrameSteps == {1, 61}
OwnBounds ==
    [a \in Actors |-> IF ActorStatic[a] THEN { <<70, 200, 200>> }
                      ELSE { <<70, 70, 70>>, <<3, 70, 70>>, <<70, 200, 200>> }]

NextOwn ==
    \/ RenderBegin(DefragResolutions)
    \/ SkipActor(ScenePlacements)
    \/ RasterizeActor(OwnBounds, TilesMasks, ScenePlacements)
    \/ RemoveUnused
    \/ CullObjects(ChunkLoads, {TRUE})
    \/ GpuExecute
    \/ NextFrame(OwnFrameSteps, MaxOwnSteps, 0)

SpecOwn == InitAt({1}, {0}) /\ [][NextOwn]_vars

(***************************************************************************)
(* SpecRedraw: two objects proposed in every frame, for every stagger      *)
(***************************************************************************)
MaxRedrawSteps == 500

\* D words of the ids of the two actors: every combination of the bits of
\* 120 for the static one, bits in and out of 4 for the other
RedrawIds ==
    { [a \in Actors |-> IF ActorStatic[a] THEN 8 * k + (IF k = 15 THEN 7 ELSE 0)
                        ELSE IF k % 4 = 0 THEN 0 ELSE IF k % 4 = 1 THEN 4
                             ELSE IF k % 4 = 2 THEN 7 ELSE 11] :
        k \in 0..15 }

InitRedraw ==
    /\ InitState
    /\ tileIn = 0
    /\ FrameCount = 1 /\ chunksCounter = 0
    /\ actorId \in RedrawIds

\* Render runs in every frame and every actor is drawn in it
NextRedraw ==
    \/ RenderBegin(ConfigResolutions)
    \/ RasterizeActor([a \in Actors |-> {<<70, 70, 70>>}], {1},
                      {p \in ScenePlacements : ActorVisible(ViewMask, DrawDistance, p)})
    \/ RemoveUnused
    \/ CullObjects(ChunkLoads, {TRUE})
    \/ GpuExecute
    \/ (LastFrameUsed = FrameCount /\ NextFrame({1}, MaxRedrawSteps, 0))

SpecRedraw == InitRedraw /\ [][NextRedraw]_vars

(***************************************************************************)
(* SpecSlots: two atlas buffers that take their readback slots from the    *)
(* same stamps                                                             *)
(***************************************************************************)
MaxSlotSteps == 3
\* frames between two Render calls of a buffer: the next one, or one more
\* than GPU_ASYNC_LATENCY later
SlotFrameSteps == {1, 3}
\* the second buffer's pass ends with a counter of 50
OtherChunkLoads == { <<49>> }

NextSlots ==
    \/ RenderBegin(ConfigResolutions)
    \/ RasterizeActor([a \in Actors |-> {<<70, 70, 70>>}], {1},
                      {p \in ScenePlacements : ActorVisible(ViewMask, DrawDistance, p)})
    \/ RemoveUnused
    \/ CullObjects(ChunkLoads, {TRUE})
    \/ RenderOther(BOOLEAN, OtherChunkLoads)
    \/ GpuExecute
    \/ NextFrame(SlotFrameSteps, MaxSlotSteps, 0)

SpecSlots == InitAt({3}, {0}) /\ [][NextSlots]_vars

(***************************************************************************)
(* SpecReady: one buffer rendered in every frame with objects in its       *)
(* cache, on a GPU that runs behind but executes what it is given          *)
(***************************************************************************)
MaxReadySteps == 6

\* the frame update, from the skip test to the return
RenderSteps ==
    \/ RenderBegin(ConfigResolutions)
    \/ RasterizeActor([a \in Actors |-> {<<70, 70, 70>>}], {1},
                      {p \in ScenePlacements : ActorVisible(ViewMask, DrawDistance, p)})
    \/ RemoveUnused
    \/ CullObjects(ChunkLoads, BOOLEAN)

\* the next frame begins once Render has run in this one
FrameAdvance == LastFrameUsed = FrameCount /\ NextFrame({1}, MaxReadySteps, MaxGpuLag)

NextReady == RenderSteps \/ GpuExecute \/ FrameAdvance

\* The render thread runs a Render that was started to its end and the engine
\* goes on to the next frame; the GPU executes the commands it was given.
SpecReady ==
    /\ InitAt({1, 3}, {0, 7})
    /\ [][NextReady]_vars
    /\ WF_vars(RenderSteps) /\ WF_vars(GpuExecute) /\ WF_vars(FrameAdvance)

(***************************************************************************)
(* SpecTile: the resolution of one face's tile, for every scaled extent    *)
(***************************************************************************)
TileInputs == (0..300) \cup {65535, 65536, 65540, 70000}

InitTile ==
    /\ InitCommon
    /\ FrameCount = 1 /\ chunksCounter = 0
    /\ tileIn \in TileInputs

\* the faces loop body for face 0 of an object without an entry, in an empty
\* atlas
TileStep ==
    /\ ~tileOut.done
    /\ \E c \in CastUInt16(tileIn) :
         LET st == RasterizeFace(LoopStart(NewAtlasTiles(ResolutionMin), NoObject), 0, TRUE, c)
         IN  tileOut' = [done |-> TRUE, outcome |-> st.outcome[0], cast |-> c,
                         resolution |-> st.size[0],
                         rect |-> TileRect(st.nodes, st.obj.Tiles[0])]
    /\ UNCHANGED << FrameCount, pc, cursor, cacheVars, gpuVars, renderReturn, histVars, steps,
                    tileIn, envVars, outVars >>

NextTile == TileStep

SpecTile == InitTile /\ [][NextTile]_vars

(***************************************************************************)
(* SpecWidth: the capacity of the culled objects buffer, for counters over *)
(* the whole range of 32 bits                                              *)
(***************************************************************************)
CounterHighs == {0, 1, 2047, 2048, 4095, 4096, 4097, 32767, 32768, 65535}
CounterLows == {0, 1, 255, 256, 257, 65280, 65281, 65535}
WidthBytes == {0, 352, 1056}

InitWidth ==
    /\ InitRender /\ actorId = ActorIdD
    /\ tileIn = 0
    /\ FrameCount = 1 /\ chunksCounter = 0
    /\ capIn \in [ready : BOOLEAN, counter : CounterHighs \X CounterLows, bytes : WidthBytes]
    /\ capOut = NoCapOut
    /\ GraphCleared

\* objectsBufferCapacity from the fallback or from the counter read, then the
\* alignment and the limit; ready stands for a held slot that Map could read
CapacityStep ==
    /\ ~capOut.done
    /\ LET sampled == capIn.ready /\ capIn.counter # Word(0)
           estimate == IF sampled THEN SampleCapacity32(capIn.counter)
                       ELSE Word(FallbackCapacity(capIn.bytes))
       IN  capOut' = [done |-> TRUE, estimate |-> estimate,
                      capacity |-> AlignedCapacity32(estimate)]
    /\ UNCHANGED << FrameCount, pc, cursor, cacheVars, gpuVars, renderReturn, histVars, steps,
                    tileVars, actorId, otherBuffer, capIn, graphVars, outVars >>

NextWidth == CapacityStep

SpecWidth == InitWidth /\ [][NextWidth]_vars

(***************************************************************************)
(* BehaviorTreeGraph::Load (BehaviorTree.cpp).  A graph node is a record   *)
(* [ID, TypeID, Instance, StateSize, Values, Meta, Connections]: Instance   *)
(* is the class of the node's instance object or "none" for a null          *)
(* Instance, Values the decorator ids of Values[2] when the node has them,  *)
(* Meta the X coordinate of meta entry 11 when the node has one,            *)
(* Connections the nodes connected to output box 1.  A node is named by its *)
(* position in the Nodes array; 0 is the null pointer.  The classes of      *)
(* BehaviorTreeNodes.h are not under src/: a root node is a compound node.  *)
(***************************************************************************)
NoValues == [has |-> FALSE, ids |-> << >>]
NoMeta == [has |-> FALSE, X |-> 0]
NoInstance == [_memoryOffset |-> -1, _executionIndex |-> -1, _parent |-> 0,
               _decorators |-> << >>, Children |-> << >>]

\* node.Instance as a pointer
InstancePtr(ns, i) == IF ns[i].Instance = "none" THEN 0 ELSE i

\* onNodeLoaded: Root is the instance of the first node of the root type
FindRootInstance(ns) ==
    LET roots == {i \in 1..Len(ns) : ns[i].Instance = "root"}
    IN  IF roots = {} THEN 0 ELSE CHOOSE i \in roots : \A k \in roots : i <= k

\* Load: for (Node& node : Nodes) if (node.Instance == Root) { root = &node; break; }
FindRoot(ns, rootInstance) ==
    LET found == {i \in 1..Len(ns) : InstancePtr(ns, i) = rootInstance}
    IN  IF found = {} THEN 0 ELSE CHOOSE i \in found : \A k \in found : i <= k

\* GetNode(id)
GetNode(ns, id) ==
    LET found == {i \in 1..Len(ns) : ns[i].ID = id}
    IN  IF found = {} THEN 0 ELSE CHOOSE i \in found : \A k \in found : i <= k

\* decorator->Instance->Is<BehaviorTreeDecorator>()
IsDecorator(ns, i) == ns[i].Instance = "decorator"

\* ScriptingObject::Cast<BehaviorTreeCompoundNode>(node.Instance)
IsCompound(ns, i) == ns[i].Instance \in {"root", "compound"}

\* node.TypeID == 1 && node.Values.Count() >= 3, Values[2] a blob with content
HasDecoratorIds(ns, i) == ns[i].TypeID = 1 /\ ns[i].Values.has /\ ns[i].Values.ids # << >>

\* aX, bX of SortBehaviorTreeChildren
SortKey(ns, i) == IF ns[i].Meta.has THEN ns[i].Meta.X ELSE ns[i].ID

SortBehaviorTreeChildren(ns, a, b) == SortKey(ns, a) < SortKey(ns, b)

Orders(s) ==
    LET n == Len(s)
        bijections == {p \in [1..n -> 1..n] : \A j, k \in 1..n : p[j] = p[k] => j = k}
    IN  {[j \in 1..n |-> s[p[j]]] : p \in bijections}

\* Sorting::QuickSort(children.Get(), children.Count(), SortBehaviorTreeChildren):
\* the orders in which no element is less than one before it; elements that
\* compare equal come in whatever order the sort leaves them
QuickSort(ns, s) ==
    {t \in Orders(s) :
        \A j, k \in 1..Len(t) : j < k => ~SortBehaviorTreeChildren(ns, t[k], t[j])}

\* the recursion depth the call stack is taken to hold
MaxLoadDepth == 5

renderVars == << FrameCount, pc, cursor, cacheVars, gpuVars, renderReturn, histVars, steps,
                 tileVars, actorId, otherBuffer, wordVars, outVars >>

\* LoadRecursive(node), up to the decorators: the offset and the execution
\* index of the instance, the two totals.  inst are the instances as the
\* caller left them, stack the caller's frames.  A recursion deeper than the
\* stack holds ends the load.
Call(n, stack, inst) ==
    IF Len(stack) >= MaxLoadDepth
    THEN /\ loadStatus' = "overflow"
         /\ Instances' = inst /\ loadStack' = stack
         /\ UNCHANGED << NodesCount, NodesStatesSize, loadLog >>
    ELSE /\ Instances' = [inst EXCEPT ![n]._memoryOffset = NodesStatesSize,
                                      ![n]._executionIndex = NodesCount]
         /\ NodesStatesSize' = NodesStatesSize + Nodes[n].StateSize
         /\ NodesCount' = NodesCount + 1
         /\ loadStack' = Append(stack, [node |-> n, stage |-> "decorators", i |-> 1])
         /\ loadLog' = Append(loadLog, n)
         /\ loadStatus' = "building"

\* the frames with the loop index of the innermost call advanced
Advance(stack) == [stack EXCEPT ![Len(stack)].i = @ + 1]

\* Load after VisjectGraph::Load: the search for the root node, LoadRecursive
\* on it.  With Root null the search stops at the first node with a null
\* Instance, and LoadRecursive on it fails its assertion or writes through
\* the null pointer.
Load ==
    /\ loadStatus = "nodes"
    /\ LET root == FindRoot(Nodes, Root)
       IN  IF root = 0
           THEN /\ loadStatus' = "loaded"
                /\ UNCHANGED << Instances, NodesCount, NodesStatesSize, loadStack, loadLog >>
           ELSE IF Nodes[root].Instance = "none"
           THEN /\ loadStatus' \in {"assert", "nullwrite"}
                /\ UNCHANGED << Instances, NodesCount, NodesStatesSize, loadStack, loadLog >>
           ELSE Call(root, << >>, Instances)
    /\ UNCHANGED << Nodes, Root, renderVars >>

\* Load node decorators: one turn of the loop over the ids
LoadDecorator ==
    /\ loadStatus = "building" /\ loadStack # << >>
    /\ LET top == loadStack[Len(loadStack)]
           n == top.node
       IN  /\ top.stage = "decorators"
           /\ HasDecoratorIds(Nodes, n) /\ top.i <= Len(Nodes[n].Values.ids)
           /\ LET decorator == GetNode(Nodes, Nodes[n].Values.ids[top.i])
              IN  IF decorator # 0 /\ InstancePtr(Nodes, decorator) # 0
                     /\ IsDecorator(Nodes, decorator)
                  THEN Call(decorator, Advance(loadStack),
                            [Instances EXCEPT ![n]._decorators = Append(@, decorator),
                                              ![decorator]._parent = n])
                  ELSE /\ loadStack' = Advance(loadStack)
                       /\ UNCHANGED << Instances, NodesCount, NodesStatesSize, loadStatus,
                                       loadLog >>
    /\ UNCHANGED << Nodes, Root, renderVars >>

\* Sort children from left to right, for a compound node
SortChildren ==
    /\ loadStatus = "building" /\ loadStack # << >>
    /\ LET top == loadStack[Len(loadStack)]
           n == top.node
       IN  /\ top.stage = "decorators"
           /\ ~(HasDecoratorIds(Nodes, n) /\ top.i <= Len(Nodes[n].Values.ids))
           /\ IsCompound(Nodes, n)
           /\ \E children \in QuickSort(Nodes, Nodes[n].Connections) :
                Nodes' = [Nodes EXCEPT ![n].Connections = children]
           /\ loadStack' = [loadStack EXCEPT ![Len(loadStack)] =
                                [node |-> n, stage |-> "children", i |-> 1]]
    /\ UNCHANGED << Instances, Root, NodesCount, NodesStatesSize, loadStatus, loadLog,
                    renderVars >>

\* Find all children (of output box): one turn of the loop
LoadChild ==
    /\ loadStatus = "building" /\ loadStack # << >>
    /\ LET top == loadStack[Len(loadStack)]
           n == top.node
       IN  /\ top.stage = "children" /\ top.i <= Len(Nodes[n].Connections)
           /\ LET child == Nodes[n].Connections[top.i]
              IN  IF child # 0 /\ InstancePtr(Nodes, child) # 0
                  THEN Call(child, Advance(loadStack),
                            [Instances EXCEPT ![n].Children = Append(@, child),
                                              ![child]._parent = n])
                  ELSE /\ loadStack' = Advance(loadStack)
                       /\ UNCHANGED << Instances, NodesCount, NodesStatesSize, loadStatus,
                                       loadLog >>
    /\ UNCHANGED << Nodes, Root, renderVars >>

\* LoadRecursive returns; from the call on the root, back into Load, which
\* returns false
LoadReturn ==
    /\ loadStatus = "building" /\ loadStack # << >>
    /\ LET top == loadStack[Len(loadStack)]
           n == top.node
       IN  \/ /\ top.stage = "decorators"
              /\ ~(HasDecoratorIds(Nodes, n) /\ top.i <= Len(Nodes[n].Values.ids))
              /\ ~IsCompound(Nodes, n)
           \/ /\ top.stage = "children" /\ top.i > Len(Nodes[n].Connections)
    /\ loadStack' = SubSeq(loadStack, 1, Len(loadStack) - 1)
    /\ loadStatus' = IF Len(loadStack) = 1 THEN "loaded" ELSE "building"
    /\ UNCHANGED << Nodes, Instances, Root, NodesCount, NodesStatesSize, loadLog, renderVars >>

(***************************************************************************)
(* SpecGraph: Load on every graph of a family of four nodes                *)
(***************************************************************************)
GraphSize == 4
GraphIds == << 1, 4, 3, 2 >>
GraphStateSizes == << 4, 8, 0, 4 >>

\* the classes of the four instances; "none" is a node without an instance
\* (a comment, a node of a missing type)
GraphInstances ==
    { << "root", "compound", "task", "decorator" >>,
      << "root", "compound", "compound", "task" >>,
      << "root", "compound", "none", "decorator" >>,
      << "none", "compound", "task", "task" >>,
      << "compound", "compound", "task", "decorator" >> }

\* positions on the surface: none, all different, two equal, one missing
GraphMetas ==
    { [i \in 1..GraphSize |-> NoMeta],
      [i \in 1..GraphSize |-> [has |-> TRUE, X |-> << 0, 30, 20, 10 >>[i]]],
      [i \in 1..GraphSize |-> [has |-> TRUE, X |-> << 0, 10, 10, 10 >>[i]]],
      [i \in 1..GraphSize |-> IF i = 3 THEN NoMeta ELSE [has |-> TRUE, X |-> << 0, 2, 0, 5 >>[i]]] }

\* the elements of a set of numbers as a list
AsList(S) ==
    CHOOSE s \in [1..Cardinality(S) -> S] :
        \A j, k \in 1..Cardinality(S) : j < k => s[j] < s[k]
Lists(S) == {AsList(T) : T \in SUBSET S}

\* the ids of the decorators of node 2: none, node 4, node 4 twice, no such node
GraphDecoratorIds == { << >>, << 2 >>, << 2, 2 >>, << 9 >> }

\* the connections of box 1: trees, nodes under two parents, cycles
GraphConnections ==
    { << c1, c2, c3, << >> >> : c1 \in Lists({2, 3, 4}), c2 \in Lists({1, 3, 4}),
                                 c3 \in Lists({2, 4}) }

TypeIdOf(instance) ==
    IF instance = "root" THEN 2 ELSE IF instance = "decorator" THEN 3 ELSE 1

\* the state after VisjectGraph::Load returned false: the nodes read, their
\* instances created and Root set by onNodeLoaded
InitGraph ==
    /\ InitRender /\ actorId = ActorIdD
    /\ tileIn = 0 /\ FrameCount = 1 /\ chunksCounter = 0
    /\ capIn = NoCapIn /\ capOut = NoCapOut
    /\ \E instances \in GraphInstances, metas \in GraphMetas, ids \in GraphDecoratorIds,
          connections \in GraphConnections :
         Nodes = [i \in 1..GraphSize |->
                    [ID |-> GraphIds[i], TypeID |-> TypeIdOf(instances[i]),
                     Instance |-> instances[i], StateSize |-> GraphStateSizes[i],
                     Values |-> IF i = 2 THEN [has |-> TRUE, ids |-> ids] ELSE NoValues,
                     Meta |-> metas[i], Connections |-> connections[i]]]
    /\ Instances = [i \in 1..GraphSize |-> NoInstance]
    /\ Root = FindRootInstance(Nodes)
    /\ NodesCount = 0 /\ NodesStatesSize = 0
    /\ loadStack = << >> /\ loadStatus = "nodes" /\ loadLog = << >>

NextGraph == Load \/ LoadDecorator \/ SortChildren \/ LoadChild \/ LoadReturn

SpecGraph == InitGraph /\ [][NextGraph]_vars

(***************************************************************************)
(* SpecPack: the packer alone, under every sequence of Insert and Free     *)
(***************************************************************************)
PackResolutions == {128, 256}
PackSizes == {64, 96}

packOther == << FrameCount, pc, cursor, Objects, LastFrameUsed, LastFrameAtlasInsertFail,
               LastFrameAtlasDefragmentation, CurrentFrame, dirtyObjectsBuffer, objectsBuffer,
               gpuVars, renderReturn, steps, lastCall, swept, armed, desiredPrev, visit,
               tileVars, envVars, outVars >>

InitPack ==
    /\ \E r \in PackResolutions : Resolution = r /\ AtlasTiles = NewAtlasTiles(r)
    /\ FrameCount = 1 /\ chunksCounter = 0
    /\ pc = "idle" /\ cursor = 1
    /\ Objects = [a \in Actors |-> NoObject]
    /\ LastFrameUsed = 0
    /\ LastFrameAtlasInsertFail = 0 /\ LastFrameAtlasDefragmentation = 0
    /\ CurrentFrame = 0
    /\ dirtyObjectsBuffer = <<>> /\ objectsBuffer = <<>>
    /\ CulledObjectsCounterIndex = NoSlot
    /\ culledObjectsSizeFrames = [i \in Slots |-> 0]
    /\ culledObjectsSizeBuffer = [i \in Slots |-> 0]
    /\ gpuQueue = <<>> /\ chunks = <<>>
    /\ notReady = FALSE /\ CulledObjectsCapacity = 0 /\ renderReturn = FALSE
    /\ steps = 0 /\ packLog = <<>> /\ lastCall = NoCall /\ swept = {} /\ armed = 0
    /\ desiredPrev = NoDesired /\ visit = NoVisit /\ otherBuffer = NoOther
    /\ actorId = ActorIdD
    /\ capLog = NoCapLog
    /\ tileIn = 0 /\ tileOut = NoTileOut
    /\ capIn = NoCapIn /\ capOut = NoCapOut
    /\ GraphCleared
    /\ AtlasTextures = NoTextures /\ Result = NoResult /\ result = NoResult

PackInsert ==
    /\ Len(packLog) < MaxPackOps
    /\ \E w \in PackSizes, h \in PackSizes :
         LET r == Insert(AtlasTiles, w, h, InsertPadding) IN
         /\ Len(r.nodes) <= MaxNodes
         /\ AtlasTiles' = r.nodes
         /\ packLog' = Append(packLog, [op |-> "Insert", w |-> w, h |-> h, tile |-> r.tile,
                                        rect |-> TileRect(r.nodes, r.tile)])
    /\ UNCHANGED << Resolution, packOther >>

PackFree ==
    /\ Len(packLog) < MaxPackOps
    /\ \E t \in LiveTiles(AtlasTiles) :
         /\ AtlasTiles' = Free(AtlasTiles, t)
         /\ packLog' = Append(packLog, [op |-> "Free", w |-> 0, h |-> 0, tile |-> t,
                                        rect |-> TileRect(AtlasTiles, t)])
    /\ UNCHANGED << Resolution, packOther >>

NextPack == PackInsert \/ PackFree

SpecPack == InitPack /\ [][NextPack]_vars

(***************************************************************************)
(* Properties of the packer (SpecPack)                                     *)
(***************************************************************************)
\* C1: after any sequence of Insert and Free no two live tiles overlap and
\* every live tile lies inside [0,resolution) x [0,resolution)
C1_PackingValidity ==
    /\ \A i \in LiveTiles(AtlasTiles) : InAtlas(AtlasTiles[i], Resolution)
    /\ \A i, j \in LiveTiles(AtlasTiles) :
         i # j => ~Overlap(AtlasTiles[i], AtlasTiles[j])

\* three tiles live after an Insert that followed a Free
C1_Witness ==
    /\ Cardinality(LiveTiles(AtlasTiles)) >= 3
    /\ \E k \in 1..Len(packLog) : packLog[k].op = "Free"
    /\ packLog # <<>> /\ packLog[Len(packLog)].op = "Insert" /\ packLog[Len(packLog)].tile # NoTile

\* the first n operations were all Insert(64, 64)
Inserts64(n) ==
    /\ Len(packLog) >= n
    /\ \A k \in 1..n : packLog[k].op = "Insert" /\ packLog[k].w = 64 /\ packLog[k].h = 64

RectsOverlap(r, q) ==
    /\ r[1] < q[1] + q[3] /\ q[1] < r[1] + r[3]
    /\ r[2] < q[2] + q[4] /\ q[2] < r[2] + r[4]

\* Free of the tile of the first Insert, then Insert(64, 64), as operations
\* k and k + 1
FreeFirstThenInsert(k) ==
    /\ Len(packLog) >= k + 1
    /\ packLog[k].op = "Free" /\ packLog[k].tile = packLog[1].tile
    /\ packLog[k + 1].op = "Insert" /\ packLog[k + 1].w = 64 /\ packLog[k + 1].h = 64

\* C9 as stated: in a 128 x 128 atlas A and B (64 x 64) are placed without
\* overlap, the third Insert of 64 x 64 fails, and after Free(A) the Insert
\* succeeds in the rectangle A had
C9_Scenario_AsStated ==
    Resolution = 128 =>
        /\ Inserts64(2) => /\ packLog[1].tile # NoTile /\ packLog[2].tile # NoTile
                           /\ ~RectsOverlap(packLog[1].rect, packLog[2].rect)
        /\ Inserts64(3) => packLog[3].tile = NoTile
        /\ (Inserts64(3) /\ FreeFirstThenInsert(4)) =>
               packLog[5].tile # NoTile /\ packLog[5].rect = packLog[1].rect

\* C9 as the packer has it: a 128 x 128 atlas takes four tiles of 64 x 64,
\* pairwise disjoint; the fifth Insert fails, the atlas being full; after
\* Free(A) the Insert succeeds in the rectangle A had
C9_Scenario ==
    Resolution = 128 =>
        /\ \A n \in 1..4 : Inserts64(n) =>
               /\ packLog[n].tile # NoTile
               /\ \A k \in 1..(n - 1) : ~RectsOverlap(packLog[k].rect, packLog[n].rect)
        /\ Inserts64(5) => packLog[5].tile = NoTile
        /\ (Inserts64(5) /\ FreeFirstThenInsert(6)) =>
               packLog[7].tile # NoTile /\ packLog[7].rect = packLog[1].rect

\* the whole scenario has run: four tiles placed, the fifth refused, A freed
\* and its rectangle taken again
C9_Witness ==
    /\ Resolution = 128 /\ Inserts64(5) /\ FreeFirstThenInsert(6)
    /\ packLog[5].tile = NoTile
    /\ packLog[7].rect = packLog[1].rect

(***************************************************************************)
(* Properties of the cache and of the tile policy (Spec)                   *)
(***************************************************************************)
StaleEntry(a) == Objects[a].present /\ Objects[a].LastFrameUsed # CurrentFrame

\* C2: the sweep after the proposal phase removes exactly the entries whose
\* LastFrameUsed differs from the current frame and frees each of their
\* non-null tiles; the entries used in the current frame are kept, with their
\* tiles as they were
C2_SweepExact ==
    [][(pc = "draw" /\ pc' = "cull") =>
        \A a \in Actors :
            IF StaleEntry(a)
            THEN /\ ~Objects'[a].present
                 /\ \A f \in Faces : Objects[a].Tiles[f] # NoTile =>
                        ~AtlasTiles'[Objects[a].Tiles[f]].IsUsed
            ELSE /\ Objects'[a] = Objects[a]
                 /\ \A f \in Faces : Objects[a].Tiles[f] # NoTile =>
                        AtlasTiles'[Objects[a].Tiles[f]] = AtlasTiles[Objects[a].Tiles[f]]]_vars

\* the sweep of frame 6 has removed an entry last used in frame 5 that held a
\* tile, and kept an entry used in frame 6
C2_Witness ==
    /\ pc = "cull" /\ CurrentFrame = 6
    /\ \E e \in swept : e.LastFrameUsed = 5 /\ \E f \in Faces : e.Tiles[f] # NoTile
    /\ \E a \in Actors : Objects[a].present /\ Objects[a].LastFrameUsed = 6

\* sizes on the tile grid up to a limit
GridSizes(limit) == {k * TileAlignment : k \in 1..(limit \div TileAlignment)}

\* C3: an object removed by the sweep owns no tile, each rectangle it owned
\* is free, and an Insert of any rectangle no larger than it succeeds
C3_EvictionFreesTiles ==
    pc = "cull" =>
        \A e \in swept :
            /\ ~Objects[e.actor].present
            /\ TileCount(Objects[e.actor]) = 0
            /\ \A f \in Faces : e.Tiles[f] # NoTile =>
                   /\ ~AtlasTiles[e.Tiles[f]].IsUsed
                   /\ \A w \in GridSizes(AtlasTiles[e.Tiles[f]].Width),
                         h \in GridSizes(AtlasTiles[e.Tiles[f]].Height) :
                          Insert(AtlasTiles, w, h, InsertPadding).tile # NoTile

\* an object that was not proposed for a frame was swept with a 192 tile
\* while the other object holds tiles
C3_Witness ==
    /\ pc = "cull"
    /\ \E e \in swept : /\ e.LastFrameUsed = CurrentFrame - 1
                         /\ \E f \in Faces : /\ e.Tiles[f] # NoTile
                                              /\ AtlasTiles[e.Tiles[f]].Width = 192
    /\ \E a \in Actors : Objects[a].present

\* the call whose effects lastCall records
Called == lastCall.actor # 0 /\ pc = "draw"
CallCast == desiredPrev[lastCall.actor].cast
CallMask == desiredPrev[lastCall.actor].mask
CallRect(f) == TileRect(AtlasTiles, Objects[lastCall.actor].Tiles[f])

\* C4 as stated: a face with a tile whose desired resolution changed by less
\* than 32 since the call of the frame before keeps its rectangle, and the
\* object is not marked dirty
C4_ReuseStability_AsStated ==
    Called =>
        \A f \in Faces :
            ( /\ lastCall.before[f] # <<>>
              /\ lastCall.prev.frame = CurrentFrame - 1
              /\ BitTest(lastCall.prev.mask, f) /\ BitTest(CallMask, f)
              /\ AbsOf(CallCast[f] - lastCall.prev.cast[f]) < tileRefitResolutionStep )
            => (CallRect(f) = lastCall.before[f] /\ ~lastCall.dirty)

\* C4 as the code has it: a face with a tile whose new resolution, clamped and
\* snapped, is less than 32 away from the width of the tile keeps its
\* rectangle; the object is then marked dirty only by an insert for another
\* face or by the redraw period having passed
C4_ReuseStability ==
    Called =>
        \A f \in Faces :
            ( /\ lastCall.before[f] # <<>>
              /\ BitTest(CallMask, f)
              /\ CallCast[f] >= TileTooSmall
              /\ AbsOf(TileResolution(CallCast[f]) - lastCall.before[f][3])
                    < tileRefitResolutionStep )
            => /\ CallRect(f) = lastCall.before[f]
               /\ lastCall.outcome[f] = "reuse"
               /\ lastCall.dirty =>
                     \/ lastCall.inserted
                     \/ CurrentFrame - lastCall.prevDirty >=
                           RedrawPeriod(ActorStatic[lastCall.actor], ActorIdD[lastCall.actor])

\* a tile of width 64 kept for a new resolution of 88, the object not dirty
C4_Witness ==
    /\ Called
    /\ \E f \in Faces : /\ lastCall.outcome[f] = "reuse"
                         /\ lastCall.before[f] # <<>> /\ lastCall.before[f][3] = 64
                         /\ lastCall.size[f] = 88
    /\ ~lastCall.dirty

\* C10: after a call in which Insert returned null for a face, the face's
\* slot is null and LastFrameAtlasInsertFail is the current frame, every other
\* face of the mask was processed, the actors loop goes on with the next
\* actor, and a face that failed in the object's call before is tried again
C10_InsertFailureNonFatal ==
    Called =>
        /\ cursor > lastCall.actor
        /\ \A f \in Faces : lastCall.outcome[f] = "fail" =>
               /\ Objects[lastCall.actor].Tiles[f] = NoTile
               /\ LastFrameAtlasInsertFail = CurrentFrame
               /\ \A g \in Faces : BitTest(CallMask, g) => lastCall.outcome[g] # "none"
        /\ \A f \in lastCall.prev.failed :
               (BitTest(CallMask, f) /\ CallCast[f] >= TileTooSmall)
               => lastCall.outcome[f] \in {"insert", "fail"}

\* a face that failed the frame before fails again while a later face of the
\* same object is processed and keeps its tile
C10_Witness ==
    /\ Called
    /\ lastCall.prev.failed = {0} /\ lastCall.prev.frame = CurrentFrame - 1
    /\ lastCall.outcome[0] = "fail" /\ lastCall.outcome[2] = "reuse"
    /\ Objects[lastCall.actor].Tiles[2] # NoTile

(***************************************************************************)
(* Properties of the tile resolution (SpecTile)                            *)
(***************************************************************************)
\* C5: for a face that is not skipped as too small, the resolution passed to
\* Insert as width and as height is a multiple of 8 within
\* [TILE_SIZE_MIN, TILE_SIZE_MAX]
C5_TileResolutionAligned ==
    (tileOut.done /\ tileOut.outcome # "small") =>
        /\ tileOut.resolution % TileAlignment = 0
        /\ tileOut.resolution >= GLOBAL_SURFACE_ATLAS_TILE_SIZE_MIN
        /\ tileOut.resolution <= GLOBAL_SURFACE_ATLAS_TILE_SIZE_MAX
        /\ tileOut.outcome = "insert"
        /\ tileOut.rect[3] = tileOut.resolution /\ tileOut.rect[4] = tileOut.resolution

\* an extent of 70 texels, neither aligned nor at a limit, gave a tile of 64
C5_Witness ==
    /\ tileOut.done /\ tileOut.outcome = "insert"
    /\ tileIn = 70 /\ tileOut.resolution = 64

(***************************************************************************)
(* Properties of the defragmentation (SpecDefrag)                          *)
(***************************************************************************)
\* C6: armed is the frame F of an insertion failure with no clear within
\* [F-60, F], while Render has run in every frame since and has not cleared
\* yet.  The Render that then begins is within 10 frames of F and clears the
\* whole cache and the packer.
C6_DefragTrigger ==
    [][(armed # 0 /\ pc = "idle" /\ pc' = "draw") =>
        /\ FrameCount - armed <= DefragFailWindow
        /\ LastFrameAtlasDefragmentation' = FrameCount
        /\ \A a \in Actors : ~Objects'[a].present
        /\ AtlasTiles' = NewAtlasTiles(Resolution')]_vars

\* a Render has just cleared the cache in the frame after an insertion failure
C6_Witness ==
    /\ pc = "draw" /\ cursor = 1
    /\ CurrentFrame > DefragInterval
    /\ LastFrameAtlasInsertFail = CurrentFrame - 1
    /\ LastFrameAtlasDefragmentation = CurrentFrame
    /\ AtlasTextures.id = 1
    /\ \A a \in Actors : ~Objects[a].present

C8_NotReady_AsStated ==
    (pc = "idle" /\ capLog.ran) => (notReady <=> ~capLog.had)

\* C8 as the code has it: ready exactly when a slot was held at the start of
\* the frame, Map gave the data and the sample is not zero; so ready only
\* with a completed copy into the slot, and not ready with one when Map fails
\* or the sample is zero
C8_NotReady ==
    (pc = "idle" /\ capLog.ran) =>
        /\ notReady <=> ~(capLog.hadSlot /\ capLog.mapped /\ capLog.sample > 0)
        /\ ~notReady => capLog.sources[CulledObjectsCounterIndex] # {}

\* a frame with a completed copy in which Map gave no data: not ready
C8_Witness ==
    /\ pc = "idle" /\ capLog.ran
    /\ capLog.had /\ capLog.hadSlot /\ ~capLog.mapped /\ notReady

(***************************************************************************)
(* Properties of the cache at the end of a frame update (SpecFaces)        *)
(***************************************************************************)
SlotsOf(a) == {Objects[a].Tiles[f] : f \in Faces} \ {NoTile}

\* C11: once the sweep of a frame update has run, every entry of the cache
\* has at least one non-null tile slot, every non-null slot refers to a live
\* tile of the packer, and every live tile is the slot of an entry: no entry
\* without a tile, no tile without an entry
C11_EntryIffTile ==
    pc \in {"cull", "idle"} =>
        /\ \A a \in Actors : Objects[a].present => TileCount(Objects[a]) >= 1
        /\ \A a \in Actors : ~Objects[a].present => SlotsOf(a) = {}
        /\ \A a \in Actors : SlotsOf(a) \subseteq LiveTiles(AtlasTiles)
        /\ \A t \in LiveTiles(AtlasTiles) : \E a \in Actors : Objects[a].present /\ t \in SlotsOf(a)
        /\ \A a, b \in Actors : a # b => SlotsOf(a) \cap SlotsOf(b) = {}

\* after the sweep of a frame that follows an insertion failure: an entry that
\* has a tile for face 0 and none for the too small face 2, next to another entry
C11_Witness ==
    /\ pc = "cull" /\ swept = {}
    /\ Objects[1].present /\ TileCount(Objects[1]) = 1
    /\ desiredPrev[1].frame = CurrentFrame /\ desiredPrev[1].cast[2] < TileTooSmall
    /\ desiredPrev[1].mask = 5
    /\ LastFrameAtlasInsertFail > 0
    /\ Objects[2].present

(***************************************************************************)
(* Properties of the atlas over resolution changes (SpecDefrag)            *)
(***************************************************************************)
\* C12: a frame update that finds the clamped configured resolution different
\* from the cached one starts its proposal phase with no entry, a packer that
\* is one free root of the new resolution and atlas textures taken anew at
\* that resolution; no other step changes the resolution or the atlas textures
C12_ResolutionChange ==
    [][IF pc = "idle" /\ pc' = "draw" /\ Resolution' # Resolution
       THEN /\ Resolution' \in ResolutionMin..GPU_MAX_TEXTURE_SIZE
            /\ \A a \in Actors : ~Objects'[a].present /\ Objects'[a].Tiles = NoTiles
            /\ AtlasTiles' = NewAtlasTiles(Resolution')
            /\ AtlasTextures'.id # AtlasTextures.id
            /\ AtlasTextures'.resolution = Resolution'
            /\ cursor' = 1 /\ objectsBuffer' = <<>>
       ELSE AtlasTextures' = AtlasTextures /\ Resolution' = Resolution]_vars

\* the proposal phase of the frame that found 512 configured for an atlas of
\* 256 with entries: second set of textures, empty cache, one free root
C12_Witness ==
    /\ pc = "draw" /\ cursor = 1
    /\ Resolution = 512 /\ AtlasTextures = [id |-> 2, resolution |-> 512]
    /\ Result.Resolution = 256 /\ Result.ObjectsCount > 0
    /\ AtlasTiles = NewAtlasTiles(512)
    /\ \A a \in Actors : ~Objects[a].present

InDirtyList(a) == \E i \in 1..Len(dirtyObjectsBuffer) : dirtyObjectsBuffer[i] = a

\* C14: a frame update that is not skipped starts its proposal phase with an
\* empty dirty list; during the proposal phase the list holds only objects
\* proposed in this frame; when the redraw pass reads it, an object is in the
\* list exactly when it has an entry whose LastFrameDirty is the current
\* frame, and no object is in it twice
C14_DirtyListPerFrame ==
    /\ [][pc = "idle" /\ pc' = "draw" => dirtyObjectsBuffer' = <<>>]_vars
    /\ [](pc = "draw" =>
            \A i \in 1..Len(dirtyObjectsBuffer) :
                /\ dirtyObjectsBuffer[i] < cursor
                /\ desiredPrev[dirtyObjectsBuffer[i]].frame = CurrentFrame)
    /\ [](pc = "cull" =>
            /\ \A a \in Actors :
                 InDirtyList(a) <=> (Objects[a].present /\ Objects[a].LastFrameDirty = CurrentFrame)
            /\ \A i, j \in 1..Len(dirtyObjectsBuffer) :
                 dirtyObjectsBuffer[i] = dirtyObjectsBuffer[j] => i = j)

\* the redraw pass of a frame in which one of two objects that were both drawn
\* before is dirty again and the other one is not
C14_Witness ==
    /\ pc = "cull"
    /\ Len(dirtyObjectsBuffer) = 1
    /\ \A a \in Actors : Objects[a].present
    /\ \E a \in Actors : Objects[a].LastFrameDirty # CurrentFrame /\ Objects[a].LastFrameDirty > 0
    /\ Result.ObjectsCount = 2

C16_DefragOnlyWhenDue ==
    [][(/\ pc = "idle" /\ pc' = "draw"
        /\ Resolution' = Resolution
        /\ LastFrameAtlasDefragmentation' # LastFrameAtlasDefragmentation)
       => /\ LastFrameAtlasInsertFail > 0
          /\ FrameCount - LastFrameAtlasInsertFail < DefragFailWindow
          /\ FrameCount - LastFrameAtlasDefragmentation > DefragInterval
          /\ LastFrameAtlasDefragmentation' = FrameCount]_vars

\* the proposal phase of a frame update that has defragmented an atlas whose
\* resolution never changed and whose cache was not empty
C16_Witness ==
    /\ pc = "draw" /\ cursor = 1
    /\ LastFrameAtlasDefragmentation = CurrentFrame
    /\ AtlasTextures = [id |-> 1, resolution |-> Resolution]
    /\ Result.Resolution = Resolution /\ Result.ObjectsCount > 0
    /\ LastFrameAtlasInsertFail > 0
    /\ CurrentFrame - LastFrameAtlasInsertFail < DefragFailWindow
    /\ AtlasTiles = NewAtlasTiles(Resolution)

(***************************************************************************)
(* Properties of one RasterizeActor call, face by face (SpecFaces)         *)
(***************************************************************************)
\* the packer calls the last RasterizeActor call made for face f
CallsOf(f) == SelectSeq(lastCall.calls, LAMBDA c : c.face = f)
InMask(f) == BitTest(CallMask, f)
SmallFace(f) == InMask(f) /\ CallCast[f] < TileTooSmall

\* C17: after a call, a face of the mask whose desired resolution is below 4
\* has a null slot; the only packer call made for it is the Free of the tile
\* it had, if it had one, and that tile is live only if an Insert of the same
\* call took it again; the object is marked used only if a face that is not
\* too small has a tile, and counts as inserted only if such a face got one
C17_TooSmallFace ==
    Called =>
        /\ \A f \in Faces : SmallFace(f) =>
               /\ Objects[lastCall.actor].Tiles[f] = NoTile
               /\ lastCall.size[f] = 0
               /\ \A i \in 1..Len(CallsOf(f)) : CallsOf(f)[i].op = "Free"
               /\ Len(CallsOf(f)) = (IF lastCall.before[f] # <<>> THEN 1 ELSE 0)
               /\ \A i \in 1..Len(CallsOf(f)) :
                      CallsOf(f)[i].tile \in LiveTiles(AtlasTiles) =>
                          \E j \in 1..Len(lastCall.calls) :
                              /\ lastCall.calls[j].op = "Insert"
                              /\ lastCall.calls[j].tile = CallsOf(f)[i].tile
        /\ lastCall.marked =>
               \E g \in Faces : InMask(g) /\ ~SmallFace(g)
                                /\ Objects[lastCall.actor].Tiles[g] # NoTile
        /\ lastCall.inserted =>
               \E g \in Faces : InMask(g) /\ ~SmallFace(g)
                                /\ \E i \in 1..Len(CallsOf(g)) :
                                      CallsOf(g)[i].op = "Insert" /\ CallsOf(g)[i].tile # NoTile
        /\ lastCall.dirty => lastCall.marked

\* face 2 had a tile and is too small now: its tile was freed, while face 0
\* keeps its tile and nothing was inserted
C17_Witness ==
    /\ Called
    /\ SmallFace(2) /\ lastCall.before[2] # <<>>
    /\ Len(CallsOf(2)) = 1
    /\ lastCall.marked /\ ~lastCall.inserted /\ ~lastCall.dirty
    /\ Objects[lastCall.actor].Tiles[0] # NoTile

\* C18: after a call, for a face of the mask that had a tile and is not too
\* small: if the clamped and aligned resolution differs from the width the
\* tile had by less than 32, the tile has the rectangle it had and no packer
\* call was made for the face; otherwise exactly two calls were made for it,
\* the Free of the old tile and then one Insert of the new resolution squared,
\* and the slot holds the tile the Insert returned; the old tile is no longer
\* live unless an Insert of the same call took it again
C18_ReuseOrRefit ==
    Called =>
        \A f \in Faces :
            (InMask(f) /\ ~SmallFace(f) /\ lastCall.before[f] # <<>>) =>
                LET alignedNew ==
                        AlignDown(Clamp(CallCast[f], GLOBAL_SURFACE_ATLAS_TILE_SIZE_MIN,
                                        GLOBAL_SURFACE_ATLAS_TILE_SIZE_MAX), TileAlignment)
                    currentTileWidth == lastCall.before[f][3]
                    c == CallsOf(f)
                IN  IF AbsOf(alignedNew - currentTileWidth) < tileRefitResolutionStep
                    THEN CallRect(f) = lastCall.before[f] /\ c = <<>>
                    ELSE /\ Len(c) = 2
                         /\ c[1].op = "Free" /\ c[1].tile # NoTile
                         /\ (\A j \in 1..Len(lastCall.calls) :
                                lastCall.calls[j].op = "Insert"
                                => lastCall.calls[j].tile # c[1].tile) =>
                                /\ TileRect(AtlasTiles, c[1].tile) = lastCall.before[f]
                                /\ c[1].tile \notin LiveTiles(AtlasTiles)
                         /\ c[2].op = "Insert" /\ c[2].size = alignedNew
                         /\ Objects[lastCall.actor].Tiles[f] = c[2].tile
                         /\ c[2].tile # NoTile =>
                                /\ CallRect(f)[3] = alignedNew /\ CallRect(f)[4] = alignedNew
                                /\ c[2].tile \in LiveTiles(AtlasTiles)

\* a 64 tile whose face asks for 96, exactly 32 more: freed, then inserted anew
C18_Witness ==
    /\ Called
    /\ lastCall.before[0] # <<>> /\ lastCall.before[0][3] = 64
    /\ Len(CallsOf(0)) = 2 /\ CallsOf(0)[2].size = 96
    /\ CallRect(0) # <<>> /\ CallRect(0)[3] = 96

(***************************************************************************)
(* Properties of the time-sliced redraw (SpecDefrag)                       *)
(***************************************************************************)
CallBasePeriod == IF ActorStatic[lastCall.actor] THEN RedrawFramesStatic ELSE RedrawFramesDynamic
FramesSinceDirty == CurrentFrame - lastCall.prevDirty

\* C19 as stated: an object with an entry that keeps at least one tile in this
\* call and was last dirty more than 120 (static) or 4 (otherwise) frames ago
\* is marked dirty in this call
C19_TimeSlicedRedraw_AsStated ==
    (Called /\ lastCall.prevPresent /\ lastCall.marked /\ FramesSinceDirty > CallBasePeriod)
    => lastCall.dirty

\* C19: an object with an entry that keeps at least one tile in this call and
\* was last dirty at least 120 (static) or 4 (otherwise) frames ago, plus the
\* bits of the D word of the actor's id that lie in that number, is marked
\* dirty in this call, inserted tile or not: it is in the dirty list and its
\* LastFrameDirty is the current frame
C19_TimeSlicedRedraw ==
    (/\ Called /\ lastCall.prevPresent /\ lastCall.marked
     /\ FramesSinceDirty >= CallBasePeriod + BitAnd(ActorIdD[lastCall.actor], CallBasePeriod))
    => /\ lastCall.dirty
       /\ InDirtyList(lastCall.actor)
       /\ Objects[lastCall.actor].LastFrameDirty = CurrentFrame

\* the actor with bit 2 set in D, redrawn 10 frames after it was last dirty
\* with its tile reused
C19_Witness ==
    /\ Called /\ lastCall.prevPresent /\ lastCall.marked
    /\ ~lastCall.inserted /\ lastCall.dirty
    /\ lastCall.actor = 1 /\ FramesSinceDirty = 10
    /\ InDirtyList(1)

(***************************************************************************)
(* Properties of the scene update notification (Spec)                      *)
(***************************************************************************)
\* an entry with LastFrameDirty = 0 is one the notification has reset: a call
\* that leaves an entry always leaves it with the frame of a Render, >= 1
Notified == lastCall.prevPresent /\ lastCall.prevDirty = 0

\* C20: a Lightmap-static object whose entry got the update notification is
\* marked dirty and in the dirty list in the next call that proposes it and
\* keeps at least one of its tiles, whatever the frame counter is; and a
\* notification changes nothing but LastFrameDirty of that entry
C20_NotificationRedraws ==
    /\ [](( /\ Called /\ ActorStatic[lastCall.actor]
            /\ Notified /\ lastCall.marked)
          => lastCall.dirty /\ InDirtyList(lastCall.actor))
    /\ [][(pc = "idle" /\ pc' = "idle" /\ Objects' # Objects) =>
            \E a \in Actors :
                /\ ActorStatic[a] /\ Objects[a].present
                /\ Objects' = [Objects EXCEPT ![a].LastFrameDirty = 0]
                /\ UNCHANGED << AtlasTiles, dirtyObjectsBuffer, objectsBuffer, Resolution,
                                LastFrameUsed, LastFrameAtlasInsertFail,
                                LastFrameAtlasDefragmentation, CurrentFrame, FrameCount,
                                gpuVars, outVars, renderReturn >>]_vars

\* frame 6: the static object, notified after frame 5's update, is proposed
\* with the same bounds, reuses its tiles and is not marked dirty
C20_Witness ==
    /\ Called /\ ActorStatic[lastCall.actor]
    /\ Notified /\ lastCall.marked
    /\ ~lastCall.dirty /\ ~InDirtyList(lastCall.actor)
    /\ CurrentFrame = 6
    /\ Objects[lastCall.actor].LastFrameDirty = 0

(***************************************************************************)
(* Properties of the order of the GPU work of a frame (SpecCap)            *)
(***************************************************************************)
\* C21: the sample a frame takes its capacity from, and the value a frame's
\* copy puts into the slot, come from the cull pass of an earlier frame:
\* never from the frame's own pass, never from anything that is not the
\* result of a pass
C21_SampleFromEarlierPass ==
    /\ (pc = "idle" /\ capLog.ran /\ ~notReady) =>
           (0 < capLog.sampleFrame /\ capLog.sampleFrame < CurrentFrame)
    /\ capLog.copied.frame # 0 =>
           (0 < capLog.copied.from /\ capLog.copied.from < capLog.copied.frame)

\* the part of C21 that is the order of the commands: read, copy, reset,
\* dispatch, so that nothing read or copied in a frame is of that frame's pass
CopyBeforePass ==
    /\ (pc = "idle" /\ capLog.ran /\ ~notReady) => capLog.sampleFrame < CurrentFrame
    /\ capLog.copied.frame # 0 => capLog.copied.from < capLog.copied.frame
    /\ \A i \in Slots : capLog.slotFrame[i] < FrameCount

\* the first word of the new chunks buffer, 7, was copied by the first frame
\* and gives the capacity of the second
C21_Witness ==
    /\ pc = "idle" /\ capLog.ran /\ ~notReady
    /\ capLog.sampleFrame = 0 /\ capLog.sample = 7
    /\ capLog.copied.from > 0
    /\ CulledObjectsCapacity = CapacityAlignment

\* C22: after every cull pass the counter in chunk slot 0 is at least the 1
\* it was set to before the dispatch, every chunk with objects has an address
\* of at least 1 below the counter, and address 0 is that of the chunks
\* without objects
C22_AddressZeroIsEmpty ==
    chunks # <<>> =>
        /\ chunksCounter >= 1
        /\ \A j \in 1..Len(chunks) :
             /\ chunks[j].size > 0 => (chunks[j].address >= 1 /\ chunks[j].address # 0
                                       /\ chunks[j].address + chunks[j].size <= chunksCounter)
             /\ chunks[j].size = 0 <=> chunks[j].address = 0

\* a pass over a chunks buffer whose first word was 7 when it was created: the
\* first chunk with objects is at address 1, the counter ends at 600
C22_Witness ==
    /\ Len(chunks) = 2
    /\ chunks[1] = [address |-> 1, size |-> 299] /\ chunks[2].address = 300
    /\ chunksCounter = 600
    /\ \E i \in Slots : 7 \in capLog.sources[i]

(***************************************************************************)
(* Properties of the scene actors loop (SpecScene)                         *)
(***************************************************************************)
Proposed(a) ==
    /\ visit[a].seen
    /\ BitAnd(ViewMask, visit[a].layerMask) # 0
    /\ visit[a].radius >= 20
    /\ visit[a].sphereDistance < DrawDistance

\* C23: after the Sweep of a frame update every resident object was proposed
\* in that frame: its actor was tested by the actors loop of the frame with a
\* layer in the view's mask, a bounding radius of at least 20 and a sphere
\* distance below the draw distance, and its tiles were asked for in the
\* frame; an actor that failed one of the three is not resident
C23_ResidentWasProposed ==
    pc = "cull" =>
        \A a \in Actors :
          /\ Objects[a].present => (Proposed(a) /\ desiredPrev[a].frame = CurrentFrame)
          /\ (visit[a].seen /\ ~Proposed(a)) => ~Objects[a].present

\* an actor resident in the last frame whose radius is now 19 was swept, and
\* one on layers 1 and 2 at radius 20 is resident
C23_Witness ==
    /\ pc = "cull"
    /\ \E s \in swept : s.actor = 1
    /\ visit[1].radius = 19 /\ visit[1].layerMask = 1 /\ visit[1].sphereDistance = 1999
    /\ Objects[2].present /\ visit[2].radius = 20 /\ visit[2].layerMask = 3

(***************************************************************************)
(* Properties of tile ownership (SpecOwn)                                  *)
(***************************************************************************)
\* C24: after every RasterizeActor call, after the Sweep and after a full
\* clear, every non-null tile slot refers to a live tile of the packer, no
\* tile is in two slots (of one entry or of two), and every live tile is in
\* the slot of an entry
C24_TileOwnership ==
    /\ \A a \in Actors : SlotsOf(a) \subseteq LiveTiles(AtlasTiles)
    /\ \A a \in Actors : ~Objects[a].present => SlotsOf(a) = {}
    /\ \A a \in Actors : Cardinality(SlotsOf(a)) = TileCount(Objects[a])
    /\ \A a, b \in Actors : a # b => SlotsOf(a) \cap SlotsOf(b) = {}
    /\ LiveTiles(AtlasTiles) = UNION {SlotsOf(a) : a \in Actors}

\* in an atlas whose resolution was changed, a call that found tiles on two
\* faces dropped the one of the face now too small and refitted the other
C24_Witness ==
    /\ pc = "draw" /\ lastCall.actor = 1
    /\ Resolution = 512 /\ AtlasTextures.id = 2
    /\ \E f, g \in Faces :
         /\ lastCall.outcome[f] = "small" /\ lastCall.before[f] # <<>>
         /\ lastCall.outcome[g] = "insert" /\ lastCall.before[g] # <<>>
    /\ TileCount(Objects[1]) >= 1

\* C25: every object in the dirty list has an entry that is marked used in
\* the current frame and holds at least one tile, from the call that listed
\* it up to the redraw pass after the Sweep; the Sweep removes no object of
\* the current frame's dirty list
C25_DirtyListResident ==
    /\ pc \in {"draw", "cull"} =>
         \A i \in 1..Len(dirtyObjectsBuffer) :
            LET a == dirtyObjectsBuffer[i]
            IN  /\ Objects[a].present
                /\ Objects[a].LastFrameUsed = CurrentFrame
                /\ TileCount(Objects[a]) >= 1
    /\ pc = "cull" => \A s \in swept : ~InDirtyList(s.actor)

\* the redraw pass of a frame whose Sweep removed one object and whose dirty
\* list holds the other, which has one tile and a face too small for one
C25_Witness ==
    /\ pc = "cull"
    /\ \E s \in swept : s.actor = 2
    /\ dirtyObjectsBuffer = <<1>>
    /\ desiredPrev[1].frame = CurrentFrame
    /\ \E f \in Faces : BitTest(desiredPrev[1].mask, f) /\ desiredPrev[1].cast[f] < TileTooSmall
    /\ TileCount(Objects[1]) = 1

\* C26: a call in which Insert succeeded for a face leaves its object in the
\* dirty list of the frame, with LastFrameDirty and LastFrameUsed both the
\* current frame; after the Sweep of a frame that cleared the cache (first
\* use, resolution change or defragmentation) every resident object is in the
\* dirty list
C26_InsertMarksDirty ==
    /\ (Called /\ lastCall.inserted) =>
          /\ InDirtyList(lastCall.actor)
          /\ Objects[lastCall.actor].LastFrameDirty = CurrentFrame
          /\ Objects[lastCall.actor].LastFrameUsed = CurrentFrame
    /\ (pc = "cull" /\ LastFrameAtlasDefragmentation = CurrentFrame) =>
          \A a \in Actors : Objects[a].present => InDirtyList(a)

\* after the Sweep of a frame that defragmented the atlas: both objects are
\* resident again and both are in the dirty list
C26_Witness ==
    /\ pc = "cull"
    /\ LastFrameAtlasDefragmentation = CurrentFrame /\ CurrentFrame > DefragInterval
    /\ AtlasTextures.id = 1
    /\ LastFrameAtlasInsertFail = CurrentFrame - 1
    /\ Objects[1].present /\ Objects[2].present
    /\ dirtyObjectsBuffer = <<1, 2>>

(***************************************************************************)
(* Properties of the redraw period (SpecRedraw)                            *)
(***************************************************************************)
\* C27: for an object proposed in every frame that keeps a tile, in a call
\* that inserts no tile and follows no update notification: if the call marks
\* it dirty, at least P and at most 2P frames have passed since it was last
\* marked dirty, and if it does not, fewer than 2P have (P is 120 for a
\* static object, 4 otherwise), whatever the D word of the actor's id
C27_RedrawInterval ==
    ( /\ Called /\ lastCall.prevPresent /\ lastCall.marked
      /\ ~lastCall.inserted /\ lastCall.prevDirty # 0 )
    => /\ lastCall.dirty => ( /\ FramesSinceDirty >= CallBasePeriod
                              /\ FramesSinceDirty <= 2 * CallBasePeriod )
       /\ ~lastCall.dirty => FramesSinceDirty < 2 * CallBasePeriod

\* the static object whose id has all the bits of 120: redrawn in frame 481,
\* 240 frames after its redraw in frame 241
C27_Witness ==
    /\ Called /\ lastCall.actor = 2 /\ actorId[2] = 127
    /\ lastCall.dirty /\ ~lastCall.inserted
    /\ lastCall.prevDirty = 241 /\ CurrentFrame = 481

(***************************************************************************)
(* Properties of the readback slots of two buffers (SpecSlots)             *)
(***************************************************************************)
\* C28: two atlas buffers served by the same pass never hold the same
\* readback slot index
C28_DistinctSlots ==
    ( /\ CulledObjectsCounterIndex # NoSlot
      /\ otherBuffer.CulledObjectsCounterIndex # NoSlot )
    => CulledObjectsCounterIndex # otherBuffer.CulledObjectsCounterIndex

\* both buffers hold slot 0, and the first one has taken its capacity from
\* the counter of the second one's chunks buffer
C28_Witness ==
    /\ pc = "idle" /\ capLog.ran /\ ~notReady
    /\ CulledObjectsCounterIndex = 0 /\ otherBuffer.CulledObjectsCounterIndex = 0
    /\ capLog.sample = 50 /\ chunksCounter = 300

(***************************************************************************)
(* Properties of the readiness of the estimator over time (SpecReady)      *)
(***************************************************************************)
\* Map(Read) gives the data of the staging buffer in the frames that hold a slot
MapSucceeds == (pc = "idle" /\ capLog.ran /\ capLog.hadSlot) => capLog.mapped

\* Render has run in the frame and reported ready
ReportsReady == (pc = "idle" /\ LastFrameUsed = FrameCount) => (~notReady /\ ~renderReturn)

\* C29: for one buffer rendered in every frame with objects in its cache and
\* never cleared again, on a GPU that executes the copies it is given: if
\* from some frame on the readback can be mapped, then from some frame on
\* Render reports ready in every frame
C29_EventuallyReady == (<>[]MapSucceeds) => (<>[]ReportsReady)

\* ready in the frame after a frame that held the slot and was not ready
C29_Witness ==
    /\ pc = "idle" /\ LastFrameUsed = FrameCount /\ capLog.ran
    /\ ~notReady /\ ~renderReturn
    /\ capLog.hadSlot /\ capLog.sample = 300
    /\ 0 \in capLog.sources[CulledObjectsCounterIndex]
    /\ gpuQueue # <<>>

(***************************************************************************)
(* Properties of the status of repeated Render calls (Spec)                *)
(***************************************************************************)
\* C30: whenever Render has returned in a frame it ran in, first call or
\* repeated, the status it returned is the not-ready status of the frame's
\* first call
C30_RepeatedCallSameStatus ==
    (pc = "idle" /\ LastFrameUsed = FrameCount) => (renderReturn = notReady)

\* a repeated call has returned false in the frame whose first call took the
\* slot and returned true, with two objects in the result it hands out
C30_Witness ==
    /\ pc = "idle" /\ LastFrameUsed = FrameCount
    /\ capLog.ran /\ ~capLog.hadSlot /\ CulledObjectsCounterIndex = 0
    /\ notReady /\ renderReturn = FALSE
    /\ result.ObjectsCount = 2

\* C31: after the sweep, the cache entries and the object records written to
\* the objects buffer during this frame's actors loop correspond one to one:
\* every surviving entry has exactly one record, every record belongs to a
\* surviving entry, and the published ObjectsCount is the number of records.
C31_RecordsMatchEntries ==
    /\ pc = "cull" =>
         /\ \A a \in Actors :
              Objects[a].present <=>
                  Cardinality({k \in 1..Len(objectsBuffer) : objectsBuffer[k].actor = a}) = 1
         /\ \A k \in 1..Len(objectsBuffer) : Objects[objectsBuffer[k].actor].present
         /\ Cardinality({a \in Actors : Objects[a].present}) = Len(objectsBuffer)
    /\ (pc = "idle" /\ LastFrameUsed = FrameCount) => result.ObjectsCount = Len(objectsBuffer)

\* the sweep has just removed an entry that got no record in this frame while
\* another entry, with its record, survived
C31_Witness ==
    /\ pc = "cull" /\ swept # {}
    /\ Len(objectsBuffer) = 1 /\ Objects[objectsBuffer[1].actor].present

\* C32: for every 32-bit counter sample and every objects-buffer size the
\* capacity handed to the cull pass is min(alignUp(estimate, 4096), MAX_int32)
\* computed without wraparound, the estimate being counter * 16 bytes when a
\* nonzero counter was read, and is never smaller than min(estimate, MAX_int32).
C32_CapacityWithoutWraparound ==
    capOut.done =>
        LET sampled == capIn.ready /\ capIn.counter # Word(0)
            estimate == IF sampled THEN MulExact(capIn.counter, SizeofFloat4)
                        ELSE Word(FallbackCapacity(capIn.bytes))
        IN  /\ capOut.capacity = Min32(AlignUpExact(estimate, CapacityAlignment), Word(MAX_int32))
            /\ ~LessWord(capOut.capacity, Min32(estimate, Word(MAX_int32)))

\* a counter of 2^28 read back: 2^28 * 16 wraps to 0 and the capacity is 0
C32_Witness ==
    /\ capOut.done /\ capIn.ready /\ capIn.counter = << 4096, 0 >>
    /\ capOut.estimate = Word(0) /\ capOut.capacity = Word(0)

\* C33: a face whose desired resolution (minimum in-plane extent times the
\* tiles scale) is at least 4 texels is never treated as too small: for every
\* such value, 65536 and more included, a reuse or an insertion is attempted
\* with the size alignDown8(clamp(value, 8, 192)).
C33_LargeFaceNotTooSmall ==
    (tileOut.done /\ tileIn >= TileTooSmall) =>
        /\ tileOut.outcome # "small"
        /\ tileOut.resolution =
               AlignDown(Clamp(tileIn, GLOBAL_SURFACE_ATLAS_TILE_SIZE_MIN,
                               GLOBAL_SURFACE_ATLAS_TILE_SIZE_MAX), TileAlignment)

\* a desired resolution of 65536 texels, cast to 0 and skipped as too small
C33_Witness ==
    /\ tileOut.done /\ tileIn = 65536
    /\ tileOut.cast = 0 /\ tileOut.outcome = "small"

(***************************************************************************)
(* Properties of BehaviorTreeGraph::Load (SpecGraph)                       *)
(***************************************************************************)
\* the decorators and the children LoadRecursive descends into from node n,
\* in the order of the ids and of the connections
DecoratorsOf(n) ==
    IF HasDecoratorIds(Nodes, n)
    THEN SelectSeq([j \in 1..Len(Nodes[n].Values.ids) |-> GetNode(Nodes, Nodes[n].Values.ids[j])],
                   LAMBDA d : d # 0 /\ InstancePtr(Nodes, d) # 0 /\ IsDecorator(Nodes, d))
    ELSE << >>
ChildrenOf(n) ==
    IF IsCompound(Nodes, n)
    THEN SelectSeq(Nodes[n].Connections, LAMBDA c : c # 0 /\ InstancePtr(Nodes, c) # 0)
    ELSE << >>
Descent(n) == DecoratorsOf(n) \o ChildrenOf(n)
SeqRange(s) == {s[j] : j \in 1..Len(s)}

RECURSIVE ReachableFrom(_, _)
ReachableFrom(S, k) ==
    IF k = 0 THEN S
    ELSE ReachableFrom(S \cup UNION {SeqRange(Descent(n)) : n \in S}, k - 1)

RootNode == FindRoot(Nodes, Root)
Reachable == IF RootNode = 0 \/ InstancePtr(Nodes, RootNode) = 0 THEN {}
             ELSE ReachableFrom({RootNode}, Len(Nodes))

\* the ways into node m from the reachable nodes
WaysInto(m) == {<< n, j >> \in Reachable \X (1..(2 * Len(Nodes))) :
                    j <= Len(Descent(n)) /\ Descent(n)[j] = m}

\* every reachable node is the decorator or the child of exactly one node, once,
\* and the root of none
TreeShaped ==
    \A m \in Reachable : Cardinality(WaysInto(m)) = (IF m = RootNode THEN 0 ELSE 1)

RECURSIVE PreOrder(_)
RECURSIVE PreOrderAll(_, _)
PreOrderAll(s, j) == IF j > Len(s) THEN << >> ELSE PreOrder(s[j]) \o PreOrderAll(s, j + 1)
PreOrder(n) == << n >> \o PreOrderAll(Descent(n), 1)

LoadEnded == loadStatus \notin {"cleared", "nodes", "building"}
IsLoaded(n) == n \in SeqRange(loadLog)

\* C34: Load numbers the nodes in depth-first pre-order from the root, the
\* root 0, the decorators of a node before its children and the children in
\* their sorted order from left to right; for a tree-shaped graph the execution
\* indices of the loaded nodes are exactly 0..NodesCount-1 without duplicates;
\* with no root node Load succeeds with NodesCount = 0.
C34_PreOrderNumbering ==
    /\ (loadStatus = "loaded" /\ RootNode # 0 /\ TreeShaped) =>
         /\ loadLog = PreOrder(RootNode)
         /\ NodesCount = Len(loadLog)
         /\ \A k \in 1..Len(loadLog) : Instances[loadLog[k]]._executionIndex = k - 1
         /\ Instances[RootNode]._executionIndex = 0
         /\ \A n \in SeqRange(loadLog) :
              /\ Instances[n]._decorators \o Instances[n].Children = Descent(n)
              /\ \A j, k \in 1..Len(Instances[n].Children) :
                   j < k => SortKey(Nodes, Instances[n].Children[j])
                              <= SortKey(Nodes, Instances[n].Children[k])
    /\ (LoadEnded /\ Root = 0) => (loadStatus = "loaded" /\ NodesCount = 0)

\* a graph without a root node whose first node has no instance: Load takes
\* that node for the root and LoadRecursive writes through its null Instance
C34_Witness ==
    /\ Root = 0 /\ Nodes # << >> /\ Nodes[1].Instance = "none"
    /\ loadStatus = "nullwrite" /\ NodesCount = 0

RECURSIVE StateSizeSum(_)
StateSizeSum(S) ==
    IF S = {} THEN 0
    ELSE LET n == CHOOSE x \in S : TRUE IN Nodes[n].StateSize + StateSizeSum(S \ {n})

LoadedNodes == SeqRange(loadLog)
NumberedBefore(n) ==
    {m \in LoadedNodes : Instances[m]._executionIndex < Instances[n]._executionIndex}

\* C35: after Load the state range [_memoryOffset, _memoryOffset +
\* GetStateSize()) of each loaded node is disjoint from that of every other
\* loaded node, each offset is the sum of the state sizes of the nodes numbered
\* before it, and NodesStatesSize is the sum of the state sizes of all loaded
\* nodes.
C35_StateRanges ==
    loadStatus = "loaded" =>
        /\ \A n, m \in LoadedNodes :
             (n # m /\ Nodes[n].StateSize > 0 /\ Nodes[m].StateSize > 0) =>
                 \/ Instances[n]._memoryOffset + Nodes[n].StateSize <= Instances[m]._memoryOffset
                 \/ Instances[m]._memoryOffset + Nodes[m].StateSize <= Instances[n]._memoryOffset
        /\ \A n \in LoadedNodes : Instances[n]._memoryOffset = StateSizeSum(NumberedBefore(n))
        /\ NodesStatesSize = StateSizeSum(LoadedNodes)

\* node 2 is a child of the root and of another child of the root: it is
\* entered twice and its 8 bytes of state are counted twice
C35_Witness ==
    /\ loadStatus = "loaded" /\ RootNode = 1
    /\ Cardinality({k \in 1..Len(loadLog) : loadLog[k] = 2}) = 2
    /\ NodesStatesSize = StateSizeSum(LoadedNodes) + 8

Entries(n) == Cardinality({k \in 1..Len(loadLog) : loadLog[k] = n})
NoDuplicates(s) == \A j, k \in 1..Len(s) : s[j] = s[k] => j = k
OnStack(n) == Cardinality({k \in 1..Len(loadStack) : loadStack[k].node = n})

\* C36: LoadRecursive terminates for every loaded graph and enters each
\* reachable node instance exactly once: no node is counted twice in
\* NodesCount, none is added twice to a Children or decorators list, and the
\* recursion never holds a node twice nor runs out of stack; also when a node
\* is reachable through two parents or through a cycle of connections.
C36_VisitsOnce ==
    /\ \A n \in 1..Len(Nodes) : Entries(n) <= 1 /\ OnStack(n) <= 1
    /\ NodesCount = Cardinality(LoadedNodes)
    /\ \A n \in 1..Len(Nodes) :
         NoDuplicates(Instances[n].Children) /\ NoDuplicates(Instances[n]._decorators)
    /\ loadStatus # "overflow"
    /\ loadStatus = "loaded" => LoadedNodes = Reachable

\* the root and node 2 are connected to each other: LoadRecursive goes round
\* the cycle until the stack is exhausted, with each of them on it twice over
C36_Witness ==
    /\ loadStatus = "overflow" /\ RootNode = 1
    /\ 2 \in SeqRange(Nodes[1].Connections) /\ 1 \in SeqRange(Nodes[2].Connections)
    /\ OnStack(1) >= 2 /\ OnStack(2) >= 2
    /\ Entries(1) >= 2 /\ Len(Instances[1].Children) >= 2

\* C37: after Load the Children list of every compound node that was loaded
\* holds exactly the connected child nodes that have an instance, in ascending
\* order of the X coordinate of their position on the surface (of the node ID
\* for a node without position data), and the _parent of each listed child and
\* of each attached decorator is that node.
C37_ChildrenAndParents ==
    loadStatus = "loaded" =>
        \A n \in LoadedNodes :
            IsCompound(Nodes, n) =>
                /\ Instances[n].Children = ChildrenOf(n)
                /\ SeqRange(Instances[n].Children) =
                       {c \in SeqRange(Nodes[n].Connections) : InstancePtr(Nodes, c) # 0}
                /\ \A j, k \in 1..Len(Instances[n].Children) :
                     j < k => SortKey(Nodes, Instances[n].Children[j])
                                <= SortKey(Nodes, Instances[n].Children[k])
                /\ \A c \in SeqRange(Instances[n].Children) : Instances[c]._parent = n
                /\ \A d \in SeqRange(Instances[n]._decorators) : Instances[d]._parent = n

\* task node 3 is connected to the root and to compound node 2, both list it
\* among their Children, and its _parent is only the one that entered it last
C37_Witness ==
    /\ loadStatus = "loaded" /\ RootNode = 1
    /\ Nodes[3].Instance = "task"
    /\ 3 \in SeqRange(Instances[1].Children) /\ 3 \in SeqRange(Instances[2].Children)
    /\ Instances[3]._parent = 1

=============================================================================
